---- MODULE Spec2Model ----
(***************************************************************************)
(* Briefing cache and cost governor of crypto-whatsup.                     *)
(*                                                                         *)
(* The model follows the request handlers step by step.  A JavaScript      *)
(* handler runs without interruption between two awaits, so one action is  *)
(* the code between two suspension points of one request.  Time is the     *)
(* value of Date.now() in milliseconds.                                    *)
(***************************************************************************)
EXTENDS Integers, Sequences, FiniteSets, TLC

(***************************************************************************)
(* Bounds of the model.                                                    *)
(***************************************************************************)
NumClients == 2
NumProcs == 2
HorizonDays == 2
\* value of the DAILY_API_BUDGET environment variable in the modelled
\* deployment (the documented default is 200)
DAILY_API_BUDGET == 2
MaxBurst == 2
MaxWindows == 2
MaxCooldowns == 1
MaxCoins == 6
MaxWords == 5
MaxHeadline == 3
MaxText == 6
MaxTweets == 20

Clients == 1..NumClients
Procs == 1..NumProcs
\* calls of generateWhatsUp the model follows: enough to exhaust the budget
MaxSynth == DAILY_API_BUDGET + 1

(***************************************************************************)
(* Program constants.                                                      *)
(***************************************************************************)
CACHE_DURATION_MS == 24 * 60 * 60 * 1000
REFRESH_COOLDOWN_MS == 10 * 60 * 1000
RATE_WINDOW_MS == 60000
RATE_MAX_REQUESTS == 10
DAY_MS == 24 * 60 * 60 * 1000

\* the process starts at noon of day 1 (TLC integers are 32 bit, so the
\* epoch is moved; only differences of times matter to the code)
StartTime == DAY_MS + 12 * 60 * 60 * 1000
MaxNow == StartTime + HorizonDays * DAY_MS

VARIABLES
    now,              \* Date.now()
    env,              \* process.env: ADMIN_BYPASS_TOKEN, CRON_SECRET
    memoryCache,      \* cache.ts: let memoryCache
    fileCache,        \* the file whatsup-cache.json
    limits,           \* rateLimit: Map ip -> {count, resetTime}
    refreshCooldowns, \* route: Map ip -> time of the last granted refresh
    dailyBudget,      \* dailyBudget: {count, resetTime}
    pc,               \* per request slot: where the handler is suspended
    req,              \* per request slot: the request and the handler's locals
    toWrite,          \* per request slot: const cached of setCachedWhatsUp
    resp,             \* the response sent last
    synthCalls,       \* number of calls of generateWhatsUp so far
    retry,            \* claude.ts: the running call of fetchWithRetry
    prices,           \* GET /api/prices: the fetched lists and the response
    sentiment,        \* the last sentiment computed, and what it came from
    parse,            \* the last LLM answer handed to a parser, and the outcome
    tweets,           \* fetchCryptoTweets: its four searches and its result
    intel,            \* fetchCryptoIntelFromGrok: its call and its result
    synthesis         \* generateWhatsUp: its fetches and its LLM call

\* the state of the routes, and the state of the library functions that are
\* followed on their own
routeVars == <<now, env, memoryCache, fileCache, limits, refreshCooldowns,
               dailyBudget, pc, req, toWrite, resp, synthCalls>>
libVars == <<retry, prices, sentiment, parse, tweets, intel, synthesis>>
vars == <<routeVars, libVars>>

(***************************************************************************)
(* Values.                                                                 *)
(***************************************************************************)
\* an environment variable that is not set, a query parameter or header that
\* is absent (JavaScript: undefined === null is false)
Undefined == "undefined"
Null == "null"
Empty == ""
Secret == "s3cret"
Wrong == "wrong"
\* url.searchParams.get("token"), request.headers.get("authorization")
TokenValues == {Null, Empty, Secret, Wrong}
\* process.env.ADMIN_BYPASS_TOKEN, process.env.CRON_SECRET
EnvValues == {Undefined, Empty, Secret}
\* JavaScript truthiness of a string, undefined or null
Truthy(s) == s \notin {Undefined, Null, Empty}

\* memoryCache = null
NoEntry == [present |-> FALSE, data |-> 0, timestamp |-> 0, expiresAt |-> 0]
\* the file: missing, unparseable, or a JSON document {data, timestamp, expiresAt}
NoFile == [state |-> "missing", data |-> 0, timestamp |-> 0, expiresAt |-> 0]
BadFile == [state |-> "corrupt", data |-> 0, timestamp |-> 0, expiresAt |-> 0]
FileOf(e) == [state |-> "ok", data |-> e.data, timestamp |-> e.timestamp,
              expiresAt |-> e.expiresAt]
EntryOfSliding(f) == [present |-> TRUE, data |-> f.data, timestamp |-> f.timestamp,
                      expiresAt |-> now + CACHE_DURATION_MS]
EntryOf(f) == [present |-> TRUE, data |-> f.data, timestamp |-> f.timestamp,
               expiresAt |-> f.expiresAt]

NoLimit == [present |-> FALSE, count |-> 0, resetTime |-> 0]
NoReq == [kind |-> "none", client |-> 0, refresh |-> FALSE, token |-> Null,
          force |-> FALSE, call |-> 0]
NoResp == [status |-> 0, cached |-> FALSE, data |-> 0, body |-> "none"]
(***************************************************************************)
(* lib/cache.ts                                                            *)
(***************************************************************************)
\* now < expiresAt
IsFreshInclusive(expiresAt, t) == t <= expiresAt
IsFresh(expiresAt, t) == t < expiresAt

MemoryValidNever(mem, t) == FALSE
\* the memory branch of getCachedWhatsUp
MemoryValid(mem, t) == mem.present /\ IsFresh(mem.expiresAt, t)

\* the file branch of getCachedWhatsUp: readFile and JSON.parse succeed and
\* the document is not expired
FileValid(f, t) == f.state = "ok" /\ IsFresh(f.expiresAt, t)

\* what one call of getCachedWhatsUp returns when nothing else runs between
\* its memory branch and its file branch (NoEntry is null)
getCachedWhatsUp(mem, f, t) ==
    IF MemoryValid(mem, t) THEN mem
    ELSE IF FileValid(f, t) THEN EntryOf(f)
    ELSE NoEntry

\* the entry setCachedWhatsUp builds
NewEntry(data, t) ==
    [present |-> TRUE, data |-> data, timestamp |-> t,
     expiresAt |-> t + CACHE_DURATION_MS]

\* getCacheAge: whole minutes since the entry's timestamp
getCacheAge(e, t) == (t - e.timestamp) \div (1000 * 60)

(***************************************************************************)
(* lib/rateLimit.ts, as listed in FORET.md                                 *)
(***************************************************************************)
checkRateLimitOffByOne(entry, t) ==
    IF ~entry.present \/ t > entry.resetTime
    THEN [allowed |-> TRUE,
          entry |-> [present |-> TRUE, count |-> 1,
                     resetTime |-> t + RATE_WINDOW_MS]]
    ELSE IF entry.count > RATE_MAX_REQUESTS
         THEN [allowed |-> FALSE, entry |-> entry]
         ELSE [allowed |-> TRUE,
               entry |-> [entry EXCEPT !.count = entry.count + 1]]
\* the result of checkRateLimit and the entry it leaves in the map
checkRateLimit(entry, t) ==
    IF ~entry.present \/ t > entry.resetTime
    THEN [allowed |-> TRUE,
          entry |-> [present |-> TRUE, count |-> 1,
                     resetTime |-> t + RATE_WINDOW_MS]]
    ELSE IF entry.count >= RATE_MAX_REQUESTS
         THEN [allowed |-> FALSE, entry |-> entry]
         ELSE [allowed |-> TRUE,
               entry |-> [entry EXCEPT !.count = entry.count + 1]]

(***************************************************************************)
(* lib/dailyBudget.ts                                                      *)
(***************************************************************************)
NextMidnightUTC(t) == ((t \div DAY_MS) + 1) * DAY_MS

\* the counter of the current UTC day: reset lazily once midnight has passed
BudgetToday(b, t) ==
    IF t >= b.resetTime
    THEN [count |-> 0, resetTime |-> NextMidnightUTC(t)]
    ELSE b

\* checkDailyBudget().allowed, on the counter of the current day
BudgetAllowed(b) == b.count < DAILY_API_BUDGET

\* incrementDailyBudget()
incrementDailyBudget(b, t) ==
    [BudgetToday(b, t) EXCEPT !.count = BudgetToday(b, t).count + 1]

(***************************************************************************)
(* The briefing route                                                      *)
(***************************************************************************)
isAdminUnguarded(adminBypassToken, token) == token = adminBypassToken
\* const isAdmin = !!(adminBypassToken && token === adminBypassToken)
isAdmin(adminBypassToken, token) ==
    Truthy(adminBypassToken) /\ token = adminBypassToken

CooldownElapsedStrict(lastRefresh, t) == t - lastRefresh > REFRESH_COOLDOWN_MS
\* Date.now() - lastRefresh >= REFRESH_COOLDOWN_MS
CooldownElapsed(lastRefresh, t) == t - lastRefresh >= REFRESH_COOLDOWN_MS

\* a non-admin refresh=true request that is granted the bypass
RefreshGranted(refresh, admin, lastRefresh, t) ==
    refresh /\ ~admin /\ CooldownElapsed(lastRefresh, t)

\* let forceRefresh after the cooldown block
ForceRefresh(refresh, admin, lastRefresh, t) ==
    \/ RefreshGranted(refresh, admin, lastRefresh, t)
    \/ (refresh /\ admin)
\* if (!forceRefresh) { cached = await getCachedWhatsUp(); if (cached) return ... }
ServeCachedNever(force, valid) == FALSE
ServeCached(force, valid) == ~force /\ valid

BudgetAfterSynthesisTwice(kind, b, t) ==
    IF kind = "web"
    THEN incrementDailyBudget(incrementDailyBudget(b, t), t)
    ELSE b
\* the budget after a synthesis that returned: the briefing route calls
\* incrementDailyBudget(), the cron route does not
BudgetAfterSynthesis(kind, b, t) ==
    IF kind = "web" THEN incrementDailyBudget(b, t) ELSE b

\* the JSON bodies the handlers answer with
CachedResponse(e) ==
    [status |-> 200, cached |-> TRUE, data |-> e.data, body |-> "briefing"]
FreshResponse(data) ==
    [status |-> 200, cached |-> FALSE, data |-> data, body |-> "briefing"]
ErrorResponse(status, error) ==
    [status |-> status, cached |-> FALSE, data |-> 0, body |-> error]
CronResponse ==
    [status |-> 200, cached |-> FALSE, data |-> 0, body |-> "refreshed"]
FollowUpResponse ==
    [status |-> 200, cached |-> FALSE, data |-> 0, body |-> "answer"]

\* the handler returns: its locals are gone
Respond(r, rs) ==
    /\ pc' = [pc EXCEPT ![r] = "idle"]
    /\ req' = [req EXCEPT ![r] = NoReq]
    /\ resp' = rs

\* requests that may still call generateWhatsUp
Pending == Cardinality({p \in Procs : pc[p] = "readFile"})
MayStart == synthCalls + Pending < MaxSynth

\* a budget gate with a single-flight guard: a request that finds another
\* synthesis in flight does not start its own
BudgetGateSingleFlight(r, rq) ==
    LET b == BudgetToday(dailyBudget, now) IN
    /\ dailyBudget' = b
    /\ IF BudgetAllowed(b) /\ \A p \in Procs : pc[p] \notin {"synth", "write"}
       THEN /\ pc' = [pc EXCEPT ![r] = "synth"]
            /\ req' = [req EXCEPT ![r] = [rq EXCEPT !.call = synthCalls + 1]]
            /\ synthCalls' = synthCalls + 1
            /\ UNCHANGED resp
       ELSE /\ Respond(r, ErrorResponse(429, "budget"))
            /\ UNCHANGED synthCalls

\* a route that calls generateWhatsUp() without looking at the budget
BudgetGateOpen(r, rq) ==
    /\ dailyBudget' = BudgetToday(dailyBudget, now)
    /\ pc' = [pc EXCEPT ![r] = "synth"]
    /\ req' = [req EXCEPT ![r] = [rq EXCEPT !.call = synthCalls + 1]]
    /\ synthCalls' = synthCalls + 1
    /\ UNCHANGED resp

\* checkDailyBudget(), the 429 of an exhausted budget, else the call of
\* generateWhatsUp() at which the handler suspends
BudgetGate(r, rq) ==
    LET b == BudgetToday(dailyBudget, now) IN
    /\ dailyBudget' = b
    /\ IF BudgetAllowed(b)
       THEN /\ pc' = [pc EXCEPT ![r] = "synth"]
            /\ req' = [req EXCEPT ![r] = [rq EXCEPT !.call = synthCalls + 1]]
            /\ synthCalls' = synthCalls + 1
            /\ UNCHANGED resp
       ELSE /\ Respond(r, ErrorResponse(429, "budget"))
            /\ UNCHANGED synthCalls

\* GET /api/whatsup up to its first suspension: rate limit, cooldown, then
\* either the memory branch of getCachedWhatsUp or, when the refresh is
\* forced, the budget gate
WebStart(r, c, refresh, token) ==
    LET rl == checkRateLimit(limits[c], now)
        admin == isAdmin(env.adminToken, token)
        last == refreshCooldowns[c]
        granted == RefreshGranted(refresh, admin, last, now)
        force == ForceRefresh(refresh, admin, last, now)
        rq == [kind |-> "web", client |-> c, refresh |-> refresh,
               token |-> token, force |-> force /\ rl.allowed, call |-> 0]
    IN
    /\ pc[r] = "idle"
    /\ MayStart
    /\ limits' = [limits EXCEPT ![c] = rl.entry]
    /\ UNCHANGED libVars
    /\ UNCHANGED <<now, env, fileCache, toWrite>>
    /\ IF ~rl.allowed
       THEN /\ Respond(r, ErrorResponse(429, "rate"))
            /\ UNCHANGED <<refreshCooldowns, memoryCache, dailyBudget, synthCalls>>
       ELSE /\ refreshCooldowns' =
                  IF granted THEN [refreshCooldowns EXCEPT ![c] = now]
                             ELSE refreshCooldowns
            /\ UNCHANGED memoryCache
            /\ IF force
               THEN BudgetGate(r, rq)
               ELSE /\ UNCHANGED <<dailyBudget, synthCalls>>
                    /\ IF ServeCached(force, MemoryValid(memoryCache, now))
                       THEN Respond(r, CachedResponse(memoryCache))
                       ELSE /\ pc' = [pc EXCEPT ![r] = "readFile"]
                            /\ req' = [req EXCEPT ![r] = rq]
                            /\ UNCHANGED resp

\* getCachedWhatsUp resumes after readFile, then the route: a valid document
\* is promoted to memory and served, anything else is a miss
ReadFileDone(r) ==
    /\ pc[r] = "readFile"
    /\ UNCHANGED libVars
    /\ UNCHANGED <<now, env, fileCache, limits, refreshCooldowns, toWrite>>
    /\ IF ServeCached(req[r].force, FileValid(fileCache, now))
       THEN /\ memoryCache' = EntryOf(fileCache)
            /\ Respond(r, CachedResponse(fileCache))
            /\ UNCHANGED <<dailyBudget, synthCalls>>
       ELSE /\ UNCHANGED memoryCache
            /\ BudgetGate(r, req[r])

\* GET /api/cron/refresh-whatsup up to its suspension in generateWhatsUp()
CronStart(r, auth) ==
    /\ pc[r] = "idle"
    /\ MayStart
    /\ UNCHANGED libVars
    /\ UNCHANGED <<now, env, memoryCache, fileCache, limits, refreshCooldowns,
                   dailyBudget, toWrite>>
    /\ IF Truthy(env.cronSecret) /\ auth # env.cronSecret
       THEN /\ Respond(r, ErrorResponse(401, "unauthorized"))
            /\ UNCHANGED synthCalls
       ELSE /\ pc' = [pc EXCEPT ![r] = "synth"]
            /\ req' = [req EXCEPT ![r] =
                          [kind |-> "cron", client |-> 0, refresh |-> FALSE,
                           token |-> auth, force |-> FALSE,
                           call |-> synthCalls + 1]]
            /\ synthCalls' = synthCalls + 1
            /\ UNCHANGED resp

\* generateWhatsUp() returns a briefing: incrementDailyBudget() in the
\* briefing route, then setCachedWhatsUp up to its first await
SynthReturn(r) ==
    /\ pc[r] = "synth"
    /\ dailyBudget' = BudgetAfterSynthesis(req[r].kind, dailyBudget, now)
    /\ memoryCache' = NewEntry(req[r].call, now)
    /\ toWrite' = [toWrite EXCEPT ![r] = NewEntry(req[r].call, now)]
    /\ pc' = [pc EXCEPT ![r] = "write"]
    /\ UNCHANGED libVars
    /\ UNCHANGED <<now, env, fileCache, limits, refreshCooldowns, req, resp,
                   synthCalls>>

\* a catch block that drops the briefing held in memory
SynthThrowClears(r, calledLLM) ==
    /\ pc[r] = "synth"
    /\ Respond(r, ErrorResponse(500, IF calledLLM THEN "failed" ELSE "noKey"))
    /\ memoryCache' = NoEntry
    /\ UNCHANGED libVars
    /\ UNCHANGED <<now, env, fileCache, limits, refreshCooldowns,
                   dailyBudget, synthCalls, toWrite>>
\* generateWhatsUp() throws, before it called an LLM (no API key) or after
\* (an upstream error, an unparseable answer): the catch block answers 500
SynthThrow(r, calledLLM) ==
    /\ pc[r] = "synth"
    /\ Respond(r, ErrorResponse(500, IF calledLLM THEN "failed" ELSE "noKey"))
    /\ UNCHANGED libVars
    /\ UNCHANGED <<now, env, memoryCache, fileCache, limits, refreshCooldowns,
                   dailyBudget, synthCalls, toWrite>>

\* a setCachedWhatsUp that lets the error of writeFile reach the route
WriteDoneSurfaces(r, outcome) ==
    /\ pc[r] = "write"
    /\ fileCache' = CASE outcome = "ok" -> FileOf(toWrite[r])
                      [] outcome = "failed" -> fileCache
                      [] outcome = "truncated" -> BadFile
    /\ Respond(r, IF outcome = "failed" THEN ErrorResponse(500, "failed")
                  ELSE IF req[r].kind = "web"
                  THEN FreshResponse(toWrite[r].data)
                  ELSE CronResponse)
    /\ toWrite' = [toWrite EXCEPT ![r] = NoEntry]
    /\ UNCHANGED libVars
    /\ UNCHANGED <<now, env, memoryCache, limits, refreshCooldowns,
                   dailyBudget, synthCalls>>
\* setCachedWhatsUp resumes after mkdir and writeFile (a failure is logged
\* and swallowed), then the route answers
WriteDone(r, outcome) ==
    /\ pc[r] = "write"
    /\ fileCache' = CASE outcome = "ok" -> FileOf(toWrite[r])
                      [] outcome = "failed" -> fileCache
                      [] outcome = "truncated" -> BadFile
    /\ Respond(r, IF req[r].kind = "web"
                  THEN FreshResponse(toWrite[r].data)
                  ELSE CronResponse)
    /\ toWrite' = [toWrite EXCEPT ![r] = NoEntry]
    /\ UNCHANGED libVars
    /\ UNCHANGED <<now, env, memoryCache, limits, refreshCooldowns,
                   dailyBudget, synthCalls>>
WriteOutcomes == {"ok", "failed", "truncated"}

\* POST /api/whatsup/followup: the handler reads and writes no shared state.
\* Without API key it answers 500 and without question or context 400, both
\* before the upstream call; a non-2xx upstream answer is thrown and caught.
FollowUpOutcomes == {"noKey", "badBody", "upstreamError", "answer"}
FollowUpCallsLLM(outcome) == outcome \in {"upstreamError", "answer"}
FollowUp(c, outcome) ==
    /\ resp' = CASE outcome = "noKey" -> ErrorResponse(500, "noKey")
                 [] outcome = "badBody" -> ErrorResponse(400, "badBody")
                 [] outcome = "upstreamError" -> ErrorResponse(500, "failed")
                 [] outcome = "answer" -> FollowUpResponse
    /\ UNCHANGED libVars
    /\ UNCHANGED <<now, env, memoryCache, fileCache, limits, refreshCooldowns,
                   dailyBudget, pc, req, synthCalls, toWrite>>

(***************************************************************************)
(* Time                                                                    *)
(***************************************************************************)
\* the instants at which the code's comparisons change their result
RateDeadlines == {limits[c].resetTime : c \in {x \in Clients : limits[x].present}}
CooldownDeadlines ==
    {refreshCooldowns[c] + REFRESH_COOLDOWN_MS :
        c \in {x \in Clients : refreshCooldowns[x] > 0}}
CacheDeadlines ==
    (IF memoryCache.present THEN {memoryCache.expiresAt} ELSE {})
    \cup (IF fileCache.state = "ok" THEN {fileCache.expiresAt} ELSE {})
DayDeadlines == {NextMidnightUTC(now)}

\* the clock moves to just before, at or just after a deadline
TickOffsets == {-1, 0, 1}
Tick(deadlines, offsets, limit) ==
    /\ \E d \in deadlines, k \in offsets :
          /\ d + k > now
          /\ d + k <= limit
          /\ now' = d + k
    /\ UNCHANGED libVars
    /\ UNCHANGED <<env, memoryCache, fileCache, limits, refreshCooldowns,
                   dailyBudget, pc, req, toWrite, resp, synthCalls>>

\* ... or to one second after the end of a rate-limit window
RateOffsets == TickOffsets \cup {1000}
RateHorizon == StartTime + MaxWindows * (RATE_WINDOW_MS + 1000)
CooldownHorizon == StartTime + MaxCooldowns * REFRESH_COOLDOWN_MS + 1

TickRate == Tick(RateDeadlines, RateOffsets, RateHorizon)
TickCooldown == Tick(CooldownDeadlines, TickOffsets, CooldownHorizon)
TickCache == Tick(CacheDeadlines, TickOffsets, MaxNow)
DayHorizon == StartTime + (HorizonDays - 1) * DAY_MS
TickDay == Tick(DayDeadlines, TickOffsets, DayHorizon)

(***************************************************************************)
(* claude.ts: fetchWithRetry                                               *)
(***************************************************************************)
MAX_RETRIES == 3
INITIAL_DELAY_MS == 2000

\* the statuses an upstream response is drawn from; 0 stands for a fetch
\* that rejects (network error)
Statuses == {200, 204, 404, 429, 500, 529}
\* Response.ok
ResponseOk(status) == status >= 200 /\ status <= 299

\* no call of fetchWithRetry is running
NoRetry ==
    [pc |-> "idle", attempt |-> 0, seen |-> <<>>, delays |-> <<>>,
     lastError |-> 0, outcome |-> "none", status |-> 0]

ReturnsImmediatelyOnlyOk(status) == ResponseOk(status)
\* response.ok || (response.status !== 429 && response.status !== 529)
ReturnsImmediately(status) ==
    ResponseOk(status) \/ (status # 429 /\ status # 529)

BackoffLinear(attempt) == INITIAL_DELAY_MS * (attempt + 1)
\* INITIAL_DELAY_MS * Math.pow(2, attempt)
Backoff(attempt) == INITIAL_DELAY_MS * 2^attempt

\* fetchWithRetry(url, options) is called with the default retries and
\* suspends in its first fetch
CallFetchWithRetry ==
    /\ retry.pc = "idle"
    /\ retry' = [NoRetry EXCEPT !.pc = "fetch"]
    /\ UNCHANGED <<routeVars, prices, sentiment, parse, tweets, intel, synthesis>>

\* the fetch of the current attempt resolves with a response: it is returned,
\* or the error is kept and the function sleeps before the next attempt, or
\* after the last attempt the loop ends and the error is thrown
FetchSettles(status) ==
    /\ retry.pc = "fetch"
    /\ retry' =
         IF ReturnsImmediately(status)
         THEN [retry EXCEPT !.pc = "done", !.outcome = "returned",
                            !.status = status,
                            !.seen = Append(@, status)]
         ELSE IF retry.attempt < MAX_RETRIES
         THEN [retry EXCEPT !.pc = "sleep", !.lastError = status,
                            !.seen = Append(@, status),
                            !.delays = Append(@, Backoff(retry.attempt))]
         ELSE [retry EXCEPT !.pc = "done", !.outcome = "thrown",
                            !.lastError = status,
                            !.attempt = @ + 1,
                            !.seen = Append(@, status)]
    /\ UNCHANGED <<routeVars, prices, sentiment, parse, tweets, intel, synthesis>>

\* the fetch rejects: nothing catches it, the call rejects with it
FetchRejects ==
    /\ retry.pc = "fetch"
    /\ retry' = [retry EXCEPT !.pc = "done", !.outcome = "rejected",
                              !.seen = Append(@, 0)]
    /\ UNCHANGED <<routeVars, prices, sentiment, parse, tweets, intel, synthesis>>

\* the timer of the backoff fires: attempt++ and the next fetch
TimerFires ==
    /\ retry.pc = "sleep"
    /\ retry' = [retry EXCEPT !.pc = "fetch", !.attempt = @ + 1]
    /\ UNCHANGED <<routeVars, prices, sentiment, parse, tweets, intel, synthesis>>

(***************************************************************************)
(* coingecko: getTopMovers, and the prices endpoint                        *)
(***************************************************************************)
STABLECOIN_IDS ==
    {"tether", "usd-coin", "dai", "trueusd", "paxos-standard", "binance-usd",
     "frax", "usdd", "gemini-dollar", "pax-dollar", "first-digital-usd",
     "paypal-usd", "ethena-usde", "usual-usd", "fdusd", "ondo-us-dollar-yield",
     "binance-bridged-usdc-bnb-smart-chain", "usds", "usdc-bridged-base",
     "usyc", "bfusd"}
WRAPPED_TOKEN_IDS ==
    {"wrapped-bitcoin", "wrapped-steth", "wrapped-eeth", "wrapped-ether",
     "staked-ether", "rocket-pool-eth", "coinbase-wrapped-btc", "cbeth",
     "binance-staked-sol", "marinade-staked-sol", "jito-staked-sol",
     "mantle-staked-ether", "renzo-restaked-eth", "kelp-dao-restaked-eth",
     "lombard-staked-btc", "solv-btc", "msol", "bnsol", "bbsol"}

\* the market, by market capitalisation; a coin's symbol and name are
\* represented by its id
Market ==
    <<"bitcoin", "wrapped-bitcoin", "ethereum", "tether", "solana",
      "staked-ether", "dogecoin", "usd-coin">>
\* values of price_change_percentage_24h, in hundredths of a percent
Changes == {-531, -529, 0, 529, 531}
\* the answers of CoinGecko with n coins: the first n coins of the market,
\* each with some 24h change
MarketLists(n) ==
    UNION {[1..k -> Changes] : k \in 0..n}
CoinsOf(changes) ==
    [i \in 1..Len(changes) |-> [id |-> Market[i], change |-> changes[i]]]

\* Number.prototype.toFixed(1) of a change: tenths of a percent, rounded to
\* the nearest
ToFixed1(change) ==
    IF change >= 0 THEN (change + 5) \div 10 ELSE -((5 - change) \div 10)

\* Array.prototype.sort with (a, b) => b.change - a.change: stable,
\* descending
RECURSIVE InsertByChange(_, _)
InsertByChange(sorted, c) ==
    IF sorted = <<>> THEN <<c>>
    ELSE IF sorted[Len(sorted)].change >= c.change THEN Append(sorted, c)
    ELSE Append(InsertByChange(SubSeq(sorted, 1, Len(sorted) - 1), c),
                sorted[Len(sorted)])
RECURSIVE SortByChange(_)
SortByChange(coins) ==
    IF coins = <<>> THEN <<>>
    ELSE InsertByChange(SortByChange(SubSeq(coins, 1, Len(coins) - 1)),
                        coins[Len(coins)])

\* slice(0, n), slice(-n) and reverse() of arrays
SliceFirst(s, n) == SubSeq(s, 1, IF Len(s) < n THEN Len(s) ELSE n)
SliceLast(s, n) == SubSeq(s, IF Len(s) < n THEN 1 ELSE Len(s) - n + 1, Len(s))
Reverse(s) == [i \in 1..Len(s) |-> s[Len(s) + 1 - i]]

\* the TopMover of a coin
TopMover(c) == [name |-> c.id, change |-> ToFixed1(c.change)]
MapTopMover(s) == [i \in 1..Len(s) |-> TopMover(s[i])]

IsGainer(c) == c.change > 0
IsLoser(c) == c.change < 0
GainersOf(sorted) == MapTopMover(SliceFirst(SelectSeq(sorted, IsGainer), 5))
LosersFirstFive(sorted) ==
    MapTopMover(Reverse(SliceFirst(SelectSeq(sorted, IsLoser), 5)))
LosersOf(sorted) ==
    MapTopMover(Reverse(SliceLast(SelectSeq(sorted, IsLoser), 5)))
getTopMovers(coins) ==
    LET sorted == SortByChange(coins)
    IN  [gainers |-> GainersOf(sorted), losers |-> LosersOf(sorted)]

\* the selector listing: top300Coins without the excluded ids
NotExcluded(c) == c.id \notin (STABLECOIN_IDS \cup WRAPPED_TOKEN_IDS)
AvailableCoins(top300Coins) ==
    LET kept == SelectSeq(top300Coins, NotExcluded)
    IN  [i \in 1..Len(kept) |-> kept[i].id]

NoMovers == [gainers |-> <<>>, losers |-> <<>>]
NoPrices ==
    [pc |-> "idle", status |-> 0, top100Coins |-> <<>>, top300Coins |-> <<>>,
     topMovers |-> [top50 |-> NoMovers, top100 |-> NoMovers,
                    top200 |-> NoMovers, top300 |-> NoMovers],
     availableCoins |-> <<>>]

\* GET /api/prices starts and suspends in the two fetches
PricesStart ==
    /\ prices.pc = "idle"
    /\ prices' = [prices EXCEPT !.pc = "fetching"]
    /\ UNCHANGED <<routeVars, retry, sentiment, parse, tweets, intel, synthesis>>

\* both fetches returned: the response is built
PricesFetched(top100Coins, top300Coins) ==
    /\ prices.pc = "fetching"
    /\ prices' =
         [pc |-> "done", status |-> 200,
          top100Coins |-> top100Coins, top300Coins |-> top300Coins,
          topMovers |->
             [top50 |-> getTopMovers(SliceFirst(top300Coins, 50)),
              top100 |-> getTopMovers(top100Coins),
              top200 |-> getTopMovers(SliceFirst(top300Coins, 200)),
              top300 |-> getTopMovers(top300Coins)],
          availableCoins |-> AvailableCoins(top300Coins)]
    /\ UNCHANGED <<routeVars, retry, sentiment, parse, tweets, intel, synthesis>>

\* a fetch threw (CoinGecko answered non-2xx): the catch block answers 500
PricesFailed ==
    /\ prices.pc = "fetching"
    /\ prices' = [prices EXCEPT !.pc = "done", !.status = 500]
    /\ UNCHANGED <<routeVars, retry, sentiment, parse, tweets, intel, synthesis>>

(***************************************************************************)
(* Sentiment: the numeric value of the synthesis and its re-derivation     *)
(* from the conclusion text                                                *)
(***************************************************************************)
Sentiments == {"bullish", "bearish", "neutral"}

\* A text is the sequence of its words; a comma is an element of its own
\* and stands for ", ".  Two neighbouring words are separated by one space,
\* so String.includes of a phrase is the search for a run of elements.
Words == {"not", "leaning", "bearish", "Bearish", "bullish", "long", ","}
Texts(n) == UNION {[1..k -> Words] : k \in 0..n}
\* String.prototype.toLowerCase
ToLowerCase(text) ==
    [i \in 1..Len(text) |-> IF text[i] = "Bearish" THEN "bearish" ELSE text[i]]
\* String.prototype.includes
Includes(text, phrase) ==
    \E i \in 1..(Len(text) - Len(phrase) + 1) :
        SubSeq(text, i, i + Len(phrase) - 1) = phrase

BearishIndicatedUnguarded(lower) ==
    \/ Includes(lower, <<"leaning", "bearish">>)
    \/ Includes(lower, <<"bearish", "short">>)
    \/ Includes(lower, <<"bearish", "medium">>)
    \/ Includes(lower, <<"bearish", "long">>)
    \/ Includes(lower, <<"strongly", "bearish">>)
    \/ Includes(lower, <<"bearish">>)
\* the first condition of deriveSentimentFromConclusion
BearishIndicated(lower) ==
    \/ Includes(lower, <<"leaning", "bearish">>)
    \/ Includes(lower, <<"bearish", "short">>)
    \/ Includes(lower, <<"bearish", "medium">>)
    \/ Includes(lower, <<"bearish", "long">>)
    \/ Includes(lower, <<"strongly", "bearish">>)
    \/ /\ Includes(lower, <<"bearish">>)
       /\ ~Includes(lower, <<"not", "bearish">>)
\* its second condition
BullishIndicated(lower) ==
    \/ Includes(lower, <<"leaning", "bullish">>)
    \/ Includes(lower, <<"bullish", "short">>)
    \/ Includes(lower, <<"bullish", "medium">>)
    \/ Includes(lower, <<"bullish", "long">>)
    \/ Includes(lower, <<"strongly", "bullish">>)
    \/ /\ Includes(lower, <<"bullish">>)
       /\ ~Includes(lower, <<"not", "bullish">>)

\* a conclusion is undefined or a text
NoConclusion == [defined |-> FALSE, text |-> <<>>]
Conclusion(text) == [defined |-> TRUE, text |-> text]
Conclusions(n) == {NoConclusion} \cup {Conclusion(t) : t \in Texts(n)}

\* !conclusion holds for undefined and for ""
deriveSentimentFromConclusion(conclusion, fallbackSentiment) ==
    IF ~conclusion.defined \/ conclusion.text = <<>> THEN fallbackSentiment
    ELSE LET conclusionLower == ToLowerCase(conclusion.text)
         IN  IF BearishIndicated(conclusionLower) THEN "bearish"
             ELSE IF BullishIndicated(conclusionLower) THEN "bullish"
             ELSE "neutral"

NoSentiment ==
    [op |-> "none", changes |-> <<>>, conclusion |-> NoConclusion,
     fallback |-> "neutral", result |-> "neutral"]

\* the display derives the sentiment of a briefing from its conclusion and
\* its sentiment field
DeriveSentiment(conclusion, fallbackSentiment) ==
    /\ sentiment.op = "none"
    /\ sentiment' =
         [op |-> "derive", changes |-> <<>>, conclusion |-> conclusion,
          fallback |-> fallbackSentiment,
          result |-> deriveSentimentFromConclusion(conclusion,
                                                   fallbackSentiment)]
    /\ UNCHANGED <<routeVars, retry, prices, parse, tweets, intel, synthesis>>

\* 24h changes of the headline coins, in tenths of a percent
HeadlineChanges == {-80, -61, -58, -33, -22, -20, 19, 20, 21, 78}
HeadlineLists(n) == UNION {[1..k -> HeadlineChanges] : k \in 0..n}
\* coins.reduce((sum, c) => sum + c.price_change_percentage_24h, 0), exactly
RECURSIVE SumChanges(_)
SumChanges(changes) ==
    IF changes = <<>> THEN 0
    ELSE SumChanges(SubSeq(changes, 1, Len(changes) - 1))
           + changes[Len(changes)]
\* The sum and the quotient are IEEE 754 doubles.  Among the lists of up to
\* four of the changes above, the computed avgChange lies on the other side
\* of a threshold than the exact mean for these two, where
\* (-8.0 + -5.8) + 7.8 is -6.000000000000001 and avgChange is
\* -2.0000000000000004
RoundedBelow == {<<-80, -58, 78>>, <<-58, -80, 78>>}

NumericSentimentInclusive(changes) ==
    LET n == Len(changes)
        sum == SumChanges(changes)
    IN  IF n = 0 THEN "neutral"
        ELSE IF sum >= 2 * 10 * n THEN "bullish"
        ELSE IF sum <= -2 * 10 * n THEN "bearish"
        ELSE "neutral"
\* avgChange = sum / coins.length, then avgChange > 2, avgChange < -2.  The
\* quotient is compared as sum against 2 * length (in tenths: 20 * length);
\* for an empty list avgChange is NaN and both comparisons are false.
NumericSentiment(changes) ==
    LET n == Len(changes)
        sum == SumChanges(changes)
    IN  IF n = 0 THEN "neutral"
        ELSE IF sum > 2 * 10 * n THEN "bullish"
        ELSE IF sum < -2 * 10 * n
                \/ (sum = -2 * 10 * n /\ changes \in RoundedBelow)
             THEN "bearish"
        ELSE "neutral"

\* generateWhatsUp determines the overall sentiment of the fetched coins
DetermineSentiment(changes) ==
    /\ sentiment.op = "none"
    /\ sentiment' =
         [op |-> "numeric", changes |-> changes, conclusion |-> NoConclusion,
          fallback |-> "neutral", result |-> NumericSentiment(changes)]
    /\ UNCHANGED <<routeVars, retry, prices, parse, tweets, intel, synthesis>>

(***************************************************************************)
(* Extraction of the JSON object from an LLM answer                        *)
(***************************************************************************)
\* An answer is a sequence of pieces: "w" is a stretch of prose without
\* braces, "k" a well-formed run of members of a JSON object, "{" and "}"
\* are the braces.
Pieces == {"w", "k", "{", "}"}
Answers(n) == UNION {[1..k -> Pieces] : k \in 0..n}
\* opening minus closing braces among the first n pieces
RECURSIVE Depth(_, _)
Depth(text, n) ==
    IF n = 0 THEN 0
    ELSE Depth(text, n - 1)
           + (IF text[n] = "{" THEN 1 ELSE IF text[n] = "}" THEN -1 ELSE 0)
\* JSON.parse accepts the span: one object, its braces balanced, members and
\* nested objects inside and no prose
JsonParses(span) ==
    /\ Len(span) >= 2
    /\ span[1] = "{"
    /\ \A i \in 1..Len(span) : span[i] # "w"
    /\ \A n \in 1..(Len(span) - 1) : Depth(span, n) > 0
    /\ Depth(span, Len(span)) = 0

NoMatch == [matched |-> FALSE, span |-> <<>>]
MatchFirstBalanced(text) ==
    LET opens == {i \in 1..Len(text) : text[i] = "{"}
        first == CHOOSE i \in opens : \A k \in opens : i <= k
        ends == {j \in 1..Len(text) :
                   j > first /\ Depth(SubSeq(text, first, j), j - first + 1) = 0}
        end == CHOOSE j \in ends : \A k \in ends : j <= k
    IN  IF opens = {} \/ ends = {} THEN NoMatch
        ELSE [matched |-> TRUE, span |-> SubSeq(text, first, end)]
\* text.match(/\{[\s\S]*\}/): the leftmost "{" that has a "}" after it, and
\* greedily everything up to the last "}" of the text
MatchBraces(text) ==
    LET closes == {j \in 1..Len(text) : text[j] = "}"}
        last == CHOOSE j \in closes : \A k \in closes : j >= k
        opens == {i \in 1..Len(text) : text[i] = "{" /\ i < last}
        first == CHOOSE i \in opens : \A k \in opens : i <= k
    IN  IF closes = {} \/ opens = {} THEN NoMatch
        ELSE [matched |-> TRUE, span |-> SubSeq(text, first, last)]

NoParse ==
    [op |-> "none", text |-> <<>>, matched |-> FALSE, span |-> <<>>,
     parsed |-> FALSE, threw |-> FALSE]
\* jsonMatch and JSON.parse(jsonMatch[0]) of a parser
ParseOf(op, text, catches) ==
    LET m == MatchBraces(text)
        ok == m.matched /\ JsonParses(m.span)
    IN  [op |-> op, text |-> text, matched |-> m.matched, span |-> m.span,
         parsed |-> ok, threw |-> ~ok /\ ~catches]

\* generateWhatsUp parses the answer of the synthesis call; a failure is
\* thrown to the route
ParseSynthesis(text) ==
    /\ parse.op = "none"
    /\ parse' = ParseOf("synthesis", text, FALSE)
    /\ UNCHANGED <<routeVars, retry, prices, sentiment, tweets, intel, synthesis>>

\* fetchCryptoIntelFromGrok parses the answer of Grok; a failure is caught
\* and answered with the empty result
ParseGrok(text) ==
    /\ parse.op = "none"
    /\ parse' = ParseOf("grok", text, TRUE)
    /\ UNCHANGED <<routeVars, retry, prices, sentiment, tweets, intel, synthesis>>

(***************************************************************************)
(* fetchCryptoTweets: raw posts of the trusted accounts                    *)
(***************************************************************************)
\* one search per group of trusted accounts
QUERIES == 1..4

\* ln(n) in millionths, for the counts of the posts below
Ln(n) ==
    CASE n = 1 -> 0
      [] n = 10 -> 2302585
      [] n = 100 -> 4605170
      [] n = 1000 -> 6907755
FollowerBonus(followers) ==
    IF followers >= 500000 THEN 3
    ELSE IF followers >= 100000 THEN 2
    ELSE IF followers >= 50000 THEN 1
    ELSE 0
\* the score of a post, in half millionths:
\* ln(likes+1)*2 + ln(retweets+1)*1.5 + ln(views+1)*0.5 + follower bonus
scoreTweet(tweet) ==
    4 * Ln(tweet.likeCount + 1) + 3 * Ln(tweet.retweetCount + 1)
      + Ln(tweet.viewCount + 1) + 2 * 1000000 * FollowerBonus(tweet.author)

\* The posts twitterapi.io may return, one per id.  text is the length of the
\* text, author the follower count of the author; every tenth post is older
\* than 48 hours by a millisecond, every ninth shorter than 30 characters,
\* every fourth longer than 280.
RawTweet(id) ==
    [id |-> id,
     hasText |-> TRUE,
     text |-> IF id % 9 = 0 THEN 29 ELSE IF id % 4 = 0 THEN 281
              ELSE IF id % 4 = 1 THEN 30 ELSE 280,
     createdAt |-> StartTime - (IF id % 10 = 0 THEN 48 * 60 * 60 * 1000 + 1
                                ELSE IF id % 10 = 5 THEN 48 * 60 * 60 * 1000
                                ELSE 60 * 60 * 1000),
     likeCount |-> IF id % 3 = 0 THEN 0 ELSE IF id % 3 = 1 THEN 9 ELSE 99,
     retweetCount |-> IF id % 2 = 0 THEN 0 ELSE 9,
     viewCount |-> IF id % 5 = 0 THEN 999 ELSE 0,
     author |-> IF id % 4 = 0 THEN 1000 ELSE IF id % 4 = 1 THEN 50000
                ELSE IF id % 4 = 2 THEN 100000 ELSE 500000]
\* a record of the response that carries no text
Textless(tweet) == [tweet EXCEPT !.hasText = FALSE, !.text = 0]
Page(from, to) == [i \in 1..(to - from + 1) |-> RawTweet(from + i - 1)]
Pages ==
    {Page(1, 6), Page(5, 10), Page(9, 15), Page(14, MaxTweets),
     Page(1, MaxTweets), <<RawTweet(2), Textless(RawTweet(3))>>}

\* How a search ends.  "tweets": status 2xx and data.tweets an array;
\* "noTweets": 2xx and no tweets field; "notArray": 2xx and data.tweets an
\* object; "status": not 2xx; "network": fetch rejects; "badJson":
\* response.json() rejects; "abort": the 5 s timer aborted the request.
Searching == [kind |-> "pending", tweets |-> <<>>]
Ended(kind) == [kind |-> kind, tweets |-> <<>>]
Responses ==
    {[kind |-> "tweets", tweets |-> page] : page \in Pages}
      \cup {Ended(kind) : kind \in {"noTweets", "notArray", "status", "network", "badJson"}}
\* the search answered with posts
Fulfils(outcome) == outcome.kind = "tweets"
\* what searchTweets returns: data.tweets || [], and [] after any failure
SearchValueStopsBatch(outcome) == outcome
SearchValue(outcome) ==
    IF outcome.kind \in {"tweets", "notArray"} THEN outcome ELSE Ended("tweets")

NoTweets ==
    [pc |-> "idle", cutoff |-> 0, elapsed |-> 0,
     queries |-> [q \in QUERIES |-> Searching], result |-> <<>>]

\* allTweets.push(...result.value) over the settled searches, in the order of
\* QUERIES; a value that is not iterable, or a search that rejected, is kept
\* apart
RECURSIVE PushAll(_, _)
PushAll(queries, n) ==
    IF n = 0 THEN <<>>
    ELSE PushAll(queries, n - 1)
           \o (IF Fulfils(SearchValue(queries[n])) THEN SearchValue(queries[n]).tweets
               ELSE <<>>)
AllTweets(queries) == PushAll(queries, Cardinality(QUERIES))
\* filter with the Set seen: the first post of every id
Unique(all) ==
    LET firsts == SelectSeq([i \in 1..Len(all) |-> i],
                            LAMBDA i : \A k \in 1..(i - 1) : all[k].id # all[i].id)
    IN  [n \in 1..Len(firsts) |-> all[firsts[n]]]
\* min 30 chars, within 48h
KeepsTweetAnyAge(t, cutoff) == t.text >= 30
KeepsTweet(t, cutoff) == ~(t.text < 30) /\ t.createdAt >= cutoff
RECURSIVE InsertByScore(_, _)
InsertByScore(sorted, e) ==
    IF sorted = <<>> THEN <<e>>
    ELSE IF sorted[Len(sorted)].score >= e.score THEN Append(sorted, e)
    ELSE Append(InsertByScore(SubSeq(sorted, 1, Len(sorted) - 1), e),
                sorted[Len(sorted)])
\* sort((a, b) => b.score - a.score), which is stable
RECURSIVE SortByScore(_)
SortByScore(scored) ==
    IF scored = <<>> THEN <<>>
    ELSE InsertByScore(SortByScore(SubSeq(scored, 1, Len(scored) - 1)),
                       scored[Len(scored)])
RankedTweet(tweet, score) ==
    [id |-> tweet.id,
     text |-> IF tweet.text > 280 THEN 280 ELSE tweet.text,
     createdAt |-> tweet.createdAt,
     likes |-> tweet.likeCount,
     retweets |-> tweet.retweetCount,
     views |-> tweet.viewCount,
     followers |-> tweet.author,
     score |-> score]
\* dedupe, filter, score, sort, top 15, map
Rank(all, cutoff) ==
    LET filtered == SelectSeq(Unique(all), LAMBDA t : KeepsTweet(t, cutoff))
        scored == [i \in 1..Len(filtered) |->
                     [tweet |-> filtered[i], score |-> scoreTweet(filtered[i])]]
        top == SliceFirst(SortByScore(scored), 15)
    IN  [i \in 1..Len(top) |-> RankedTweet(top[i].tweet, top[i].score)]
\* a TypeError leaves fetchCryptoTweets: a value that cannot be spread, or
\* t.text.length of a record without text that survived the dedupe
RankThrows(queries) ==
    \/ \E q \in QUERIES : SearchValue(queries[q]).kind # "tweets"
    \/ LET unique == Unique(AllTweets(queries))
       IN  \E i \in 1..Len(unique) : ~unique[i].hasText

\* fetchCryptoTweets is called: without TWITTER_API_KEY it returns [] at once,
\* otherwise it starts the four searches together
CallFetchCryptoTweets(hasKey) ==
    /\ tweets.pc = "idle"
    /\ intel.pc = "idle"
    /\ tweets' = IF hasKey
                 THEN [tweets EXCEPT !.pc = "searching",
                                     !.cutoff = now - 48 * 60 * 60 * 1000]
                 ELSE [tweets EXCEPT !.pc = "done"]
    /\ UNCHANGED <<routeVars, retry, prices, sentiment, parse, intel, synthesis>>

\* 5 s pass while searches are outstanding
SearchWaits ==
    /\ tweets.pc = "searching"
    /\ tweets.elapsed < 5000
    /\ \E q \in QUERIES : tweets.queries[q] = Searching
    /\ tweets' = [tweets EXCEPT !.elapsed = 5000]
    /\ UNCHANGED <<routeVars, retry, prices, sentiment, parse, intel, synthesis>>

\* one search ends with a response or with a rejection of fetch
SearchSettles(q, outcome) ==
    /\ tweets.pc = "searching"
    /\ tweets.queries[q] = Searching
    /\ tweets' = [tweets EXCEPT !.queries[q] = outcome]
    /\ UNCHANGED <<routeVars, retry, prices, sentiment, parse, intel, synthesis>>

\* the timer of one search fires after 5 s and aborts it
SearchAborts(q) ==
    /\ tweets.pc = "searching"
    /\ tweets.queries[q] = Searching
    /\ tweets.elapsed >= 5000
    /\ tweets' = [tweets EXCEPT !.queries[q] = Ended("abort")]
    /\ UNCHANGED <<routeVars, retry, prices, sentiment, parse, intel, synthesis>>

\* Promise.allSettled resolves when every search has settled; the rest of
\* fetchCryptoTweets runs
RankTweets ==
    /\ tweets.pc = "searching"
    /\ \A q \in QUERIES : tweets.queries[q] # Searching
    /\ tweets' = IF RankThrows(tweets.queries)
                 THEN [tweets EXCEPT !.pc = "threw"]
                 ELSE [tweets EXCEPT
                         !.pc = "done",
                         !.result = Rank(AllTweets(tweets.queries), tweets.cutoff)]
    /\ UNCHANGED <<routeVars, retry, prices, sentiment, parse, intel, synthesis>>

(***************************************************************************)
(* fetchCryptoIntelFromGrok: themes and drivers from Grok                  *)
(***************************************************************************)
\* What a field of the parsed object may be: absent, a string, an object,
\* an array of well-formed items, an array with a null in it.
FieldShapes == {"missing", "string", "object", "list", "listWithNull"}
Shapes == [themes : FieldShapes, priceDrivers : FieldShapes]
PlainShape == [themes |-> "list", priceDrivers |-> "list"]
EmptyIntel ==
    [themes |-> <<>>, priceDrivers |-> <<>>, breakingNews |-> <<>>, sentiment |-> ""]
\* normalizeClaims: (items || []).map(...); a string and an object have no map
normalizeClaims(items) ==
    CASE items = "missing" -> [error |-> FALSE, value |-> <<>>]
      [] items = "list" -> [error |-> FALSE, value |-> <<"claim">>]
      [] items = "listWithNull" -> [error |-> FALSE, value |-> <<"claim", "null">>]
      [] OTHER -> [error |-> TRUE, value |-> <<>>]
\* normalizeThemes: [] unless an array; t.theme of a null item is a TypeError
normalizeThemes(themes) ==
    CASE themes = "list" -> [error |-> FALSE, value |-> <<"theme">>]
      [] themes = "listWithNull" -> [error |-> TRUE, value |-> <<>>]
      [] OTHER -> [error |-> FALSE, value |-> <<>>]
\* the body of the try block once the response is there
IntelOf(text, shape) ==
    LET json == ParseOf("grok", text, TRUE)
        themes == normalizeThemes(shape.themes)
        drivers == normalizeClaims(shape.priceDrivers)
    IN  IF ~json.parsed \/ themes.error \/ drivers.error
        THEN [error |-> TRUE, value |-> EmptyIntel]
        ELSE [error |-> FALSE,
              value |-> [themes |-> themes.value, priceDrivers |-> drivers.value,
                         breakingNews |-> <<"claim">>, sentiment |-> "mixed"]]

NoIntel ==
    [pc |-> "idle", outcome |-> "none", text |-> <<>>, shape |-> PlainShape,
     result |-> EmptyIntel]

\* fetchCryptoIntelFromGrok is called: without XAI_API_KEY it returns the
\* empty result at once
CallFetchCryptoIntelFromGrok(hasKey) ==
    /\ intel.pc = "idle"
    /\ tweets.pc = "idle"
    /\ intel' = IF hasKey THEN [intel EXCEPT !.pc = "fetching"]
                ELSE [intel EXCEPT !.pc = "done", !.outcome = "noKey"]
    /\ UNCHANGED <<routeVars, retry, prices, sentiment, parse, tweets, synthesis>>

\* fetch rejects ("network"), the status is not 2xx ("status"),
\* response.json() rejects ("badJson") or the answer has no content
\* ("noContent"): the error is caught and the empty result returned
GrokFails(outcome) ==
    /\ intel.pc = "fetching"
    /\ intel' = [intel EXCEPT !.pc = "done", !.outcome = outcome]
    /\ UNCHANGED <<routeVars, retry, prices, sentiment, parse, tweets, synthesis>>

\* Grok answers with a text; whatever is thrown while it is parsed and
\* normalised is caught
GrokAnswers(text, shape) ==
    /\ intel.pc = "fetching"
    /\ shape = PlainShape \/ ParseOf("grok", text, TRUE).parsed
    /\ intel' = [intel EXCEPT !.pc = "done",
                              !.outcome = IF IntelOf(text, shape).error
                                          THEN "caught" ELSE "content",
                              !.text = text,
                              !.shape = shape,
                              !.result = IntelOf(text, shape).value]
    /\ UNCHANGED <<routeVars, retry, prices, sentiment, parse, tweets, synthesis>>

(***************************************************************************)
(* generateWhatsUp: the fetches and the synthesis call                     *)
(***************************************************************************)
\* how fetchSpecificCoins ends: the coins, or a throw after a status other
\* than 2xx, a rejected fetch or an unreadable body
PriceOutcomes == {"ok", "status", "network", "badJson"}
\* how fetchCryptoIntelFromGrok ends; it returns in every case, with the
\* empty result unless it is "content"
IntelOutcomes ==
    {"noKey", "network", "status", "badJson", "noContent", "caught", "content"}
\* how the call of the Anthropic API and the parsing of its answer end
LLMOutcomes == {"briefing", "network", "status", "invalid", "noJson", "badJson"}

NoSynthesis ==
    [pc |-> "idle", price |-> "none", intel |-> "none", evidence |-> "none",
     llm |-> "none", llmCalls |-> 0, log |-> <<>>]

\* the fetches Promise.all is given, in the order of the array
FanOut == <<"price", "intel">>
Started(fetches, name) == \E i \in 1..Len(fetches) : fetches[i] = name

\* generateWhatsUp() is called: without ANTHROPIC_API_KEY it throws, else it
\* calls the fetches one after the other and awaits Promise.all of them
CallGenerateWhatsUp(hasKey) ==
    /\ synthesis.pc = "idle"
    /\ synthesis' =
         IF ~hasKey THEN [synthesis EXCEPT !.pc = "threw"]
         ELSE [synthesis EXCEPT
                 !.pc = "join",
                 !.price = IF Started(FanOut, "price") THEN "pending" ELSE "none",
                 !.intel = IF Started(FanOut, "intel") THEN "pending" ELSE "none",
                 !.evidence = IF Started(FanOut, "evidence") THEN "pending" ELSE "none",
                 !.log = [i \in 1..Len(FanOut) |-> FanOut[i]] \o <<"await">>]
    /\ UNCHANGED <<routeVars, retry, prices, sentiment, parse, tweets, intel>>

\* Promise.all is fulfilled once every fetch given to it has been
Joined(s) ==
    /\ s.price \in {"none", "ok"}
    /\ s.intel \notin {"pending"}
    /\ s.evidence \notin {"pending"}
\* after the join: the prompt is built and the Anthropic API is called
AfterSettle(s) ==
    IF s.pc = "join" /\ s.price \in PriceOutcomes \ {"ok"}
    THEN [s EXCEPT !.pc = "threw"]
    ELSE IF s.pc = "join" /\ Joined(s)
    THEN [s EXCEPT !.pc = "llm", !.llmCalls = @ + 1, !.log = Append(@, "llm")]
    ELSE s

\* fetchSpecificCoins settles; a rejection rejects Promise.all at once
PriceSettles(outcome) ==
    /\ synthesis.price = "pending"
    /\ synthesis' = AfterSettle([synthesis EXCEPT !.price = outcome,
                                                  !.log = Append(@, "price settled")])
    /\ UNCHANGED <<routeVars, retry, prices, sentiment, parse, tweets, intel>>

\* fetchCryptoIntelFromGrok settles, possibly after generateWhatsUp threw
IntelSettles(outcome) ==
    /\ synthesis.intel = "pending"
    /\ synthesis' = AfterSettle([synthesis EXCEPT !.intel = outcome,
                                                  !.log = Append(@, "intel settled")])
    /\ UNCHANGED <<routeVars, retry, prices, sentiment, parse, tweets, intel>>

\* the call of the Anthropic API settles: the briefing is returned, or the
\* error is thrown to the route
LLMSettles(outcome) ==
    /\ synthesis.pc = "llm"
    /\ synthesis' = [synthesis EXCEPT
                       !.pc = IF outcome = "briefing" THEN "done" ELSE "threw",
                       !.llm = outcome]
    /\ UNCHANGED <<routeVars, retry, prices, sentiment, parse, tweets, intel>>

\* the library functions at rest
LibIdle ==
    /\ retry = NoRetry
    /\ prices = NoPrices
    /\ sentiment = NoSentiment
    /\ parse = NoParse
    /\ tweets = NoTweets
    /\ intel = NoIntel
    /\ synthesis = NoSynthesis

(***************************************************************************)
(* The system                                                              *)
(***************************************************************************)
\* a document left in the cache file by an earlier process
OldFile == FileOf(NewEntry(0, StartTime - 60 * 60 * 1000))
OldFiles == {NoFile, BadFile, OldFile}

\* the state after the modules are loaded, under the given environments
InitWith(envs, files) ==
    /\ now = StartTime
    /\ env \in envs
    /\ memoryCache = NoEntry
    /\ fileCache \in files
    /\ limits = [c \in Clients |-> NoLimit]
    /\ refreshCooldowns = [c \in Clients |-> 0]
    /\ dailyBudget = [count |-> 0, resetTime |-> 0]
    /\ pc = [r \in Procs |-> "idle"]
    /\ req = [r \in Procs |-> NoReq]
    /\ toWrite = [r \in Procs |-> NoEntry]
    /\ resp = NoResp
    /\ synthCalls = 0
    /\ LibIdle

NoSecrets == [adminToken |-> Undefined, cronSecret |-> Undefined]

\* a client that sends at most MaxBurst requests per rate-limit window
Calm(c) == checkRateLimit(limits[c], now).entry.count <= MaxBurst

\* the handlers' steps after their first suspension
Resume ==
    \/ \E r \in Procs : ReadFileDone(r)
    \/ \E r \in Procs : SynthReturn(r)
    \/ \E r \in Procs, calledLLM \in BOOLEAN : SynthThrow(r, calledLLM)
    \/ \E r \in Procs, outcome \in WriteOutcomes : WriteDone(r, outcome)

\* the same steps when generateWhatsUp fails only upstream and the cache
\* directory is writable
ResumeHealthy ==
    \/ \E r \in Procs : ReadFileDone(r)
    \/ \E r \in Procs : SynthReturn(r)
    \/ \E r \in Procs : SynthThrow(r, TRUE)
    \/ \E r \in Procs : WriteDone(r, "ok")

\* Spec: plain reads of the briefing over the life of cache entries
Init == InitWith({NoSecrets}, OldFiles)
Next ==
    \/ \E r \in Procs : Calm(1) /\ WebStart(r, 1, FALSE, Null)
    \/ Resume
    \/ TickCache
Spec == Init /\ [][Next]_vars

\* SpecRate: two clients read at any pace over a few rate-limit windows
\* while the cache file holds a valid briefing
InitRate == InitWith({NoSecrets}, {OldFile})
NextRate ==
    \/ \E r \in Procs, c \in Clients : WebStart(r, c, FALSE, Null)
    \/ \E r \in Procs : ReadFileDone(r)
    \/ TickRate
SpecRate == InitRate /\ [][NextRate]_vars

\* SpecCooldown: clients without the admin token ask for reads and for
\* refreshes while the cache file holds a valid briefing
InitCooldown == InitWith({NoSecrets}, {OldFile})
NextCooldown ==
    \/ \E r \in Procs, c \in Clients, refresh \in BOOLEAN :
          Calm(c) /\ WebStart(r, c, refresh, Null)
    \/ ResumeHealthy
    \/ TickCooldown
SpecCooldown == InitCooldown /\ [][NextCooldown]_vars

\* SpecAdmin: one client asks for refreshes with every token value, under
\* every configuration of ADMIN_BYPASS_TOKEN
InitAdmin ==
    InitWith([adminToken : EnvValues, cronSecret : {Undefined}], {OldFile})
NextAdmin ==
    \/ \E r \in Procs, refresh \in BOOLEAN, token \in TokenValues :
          Calm(1) /\ WebStart(r, 1, refresh, token)
    \/ ResumeHealthy
    \/ TickCooldown
SpecAdmin == InitAdmin /\ [][NextAdmin]_vars

\* SpecCost: every operation that costs an LLM call, across a UTC midnight:
\* reads and admin refreshes of the briefing, cron refreshes, follow-ups
InitCost ==
    InitWith({[adminToken |-> Secret, cronSecret |-> Secret]},
             {NoFile, OldFile})
\* a client that stops one request after the budget is used up
Insistent(c) ==
    checkRateLimit(limits[c], now).entry.count <= DAILY_API_BUDGET + 1
NextCost ==
    \/ \E r \in Procs, refresh \in BOOLEAN :
          Insistent(1) /\ WebStart(r, 1, refresh, Secret)
    \/ \E r \in Procs, auth \in {Null, Secret} : CronStart(r, auth)
    \/ ResumeHealthy
    \/ \E c \in Clients, outcome \in FollowUpOutcomes : FollowUp(c, outcome)
    \/ TickDay
SpecCost == InitCost /\ [][NextCost]_vars

\* SpecWriters: only calls of setCachedWhatsUp, from forced refreshes with
\* the admin token and from cron refreshes, with a writable cache directory
InitWriters ==
    InitWith({[adminToken |-> Secret, cronSecret |-> Secret]},
             {NoFile, OldFile})
NextWriters ==
    \/ \E r \in Procs : Calm(1) /\ WebStart(r, 1, TRUE, Secret)
    \/ \E r \in Procs : CronStart(r, Secret)
    \/ \E r \in Procs : SynthReturn(r)
    \/ \E r \in Procs : SynthThrow(r, TRUE)
    \/ \E r \in Procs : WriteDone(r, "ok")
SpecWriters == InitWriters /\ [][NextWriters]_vars
(***************************************************************************)
(* Properties of the briefing cache                                        *)
(***************************************************************************)
AllIdle == \A r \in Procs : pc[r] = "idle"
\* the entry a read of the cache returns in the current state
Served == getCachedWhatsUp(memoryCache, fileCache, now)
\* r is a GET without refresh=true that passes the rate limit in this step
PlainReadStarts(r) ==
    \E c \in Clients, token \in TokenValues :
        /\ WebStart(r, c, FALSE, token)
        /\ checkRateLimit(limits[c], now).allowed
\* the step answers r with the cached entry e and calls no synthesis, and a
\* read that follows at once finds the same entry
AnsweredFromCache(r, e) ==
    /\ resp' = [status |-> 200, cached |-> TRUE, data |-> e.data,
                body |-> "briefing"]
    /\ pc'[r] = "idle"
    /\ synthCalls' = synthCalls
    /\ Served' = e

\* C1: a GET without refresh that finds a valid cached briefing (in memory
\* when it starts, or in the file when its readFile completes) answers with
\* that briefing's content, starts no synthesis, and leaves the cache such
\* that the next read returns the same entry: two successive reads return
\* identical content and neither calls generateWhatsUp.
C1_CacheIdempotent ==
    [][\A r \in Procs :
         /\ (PlainReadStarts(r) /\ memoryCache.present /\ now < memoryCache.expiresAt)
              => AnsweredFromCache(r, memoryCache)
         /\ (ReadFileDone(r) /\ req[r].kind = "web" /\ ~req[r].force
                /\ fileCache.state = "ok" /\ now < fileCache.expiresAt)
              => AnsweredFromCache(r, EntryOf(fileCache))]_vars

\* two reads of one rate-limit window were both answered from the cache, the
\* last one with the entry the cache still serves, and nothing was synthesized
C1_Witness ==
    /\ AllIdle
    /\ synthCalls = 0
    /\ limits[1].count >= 2
    /\ Served.present
    /\ resp = CachedResponse(Served)
\* C2: a read returns a stored entry exactly while now < expiresAt: the
\* memory branch serves the memory entry before T and falls through to the
\* file at and after T; the file branch serves (and promotes) the document
\* before T and reports a miss at and after T.
C2_ExpiryBoundary ==
    [][\A r \in Procs :
         /\ PlainReadStarts(r) =>
              IF memoryCache.present /\ now < memoryCache.expiresAt
              THEN resp' = CachedResponse(memoryCache) /\ pc'[r] = "idle"
              ELSE pc'[r] = "readFile" /\ resp' = resp
         /\ ReadFileDone(r) =>
              IF fileCache.state = "ok" /\ now < fileCache.expiresAt
              THEN /\ resp' = CachedResponse(fileCache)
                   /\ memoryCache' = EntryOf(fileCache)
                   /\ pc'[r] = "idle"
              ELSE /\ memoryCache' = memoryCache
                   /\ \/ pc'[r] = "synth"
                      \/ resp' = ErrorResponse(429, "budget")]_vars

\* an entry that sits in both slots was served while it was fresh, and the
\* read made 1 ms after its expiry found nothing and went on to synthesis
C2_Witness ==
    \E r \in Procs :
        /\ pc[r] = "synth"
        /\ fileCache.state = "ok"
        /\ memoryCache = EntryOf(fileCache)
        /\ now = fileCache.expiresAt + 1
        /\ resp = CachedResponse(memoryCache)

\* the counter of the current UTC day
BudgetCount == BudgetToday(dailyBudget, now).count

\* C3: a briefing request answered from the cache leaves the daily budget
\* as it is; a request that misses increments the counter by exactly one,
\* in the step in which generateWhatsUp returns, and in no other step.
C3_BudgetGateOrdering ==
    [][\A r \in Procs :
         /\ ((PlainReadStarts(r) \/ ReadFileDone(r))
                /\ pc'[r] = "idle" /\ resp'.cached)
              => dailyBudget' = dailyBudget
         /\ (ReadFileDone(r) /\ pc'[r] = "synth") => BudgetCount' = BudgetCount
         /\ (SynthReturn(r) /\ req[r].kind = "web")
              => BudgetCount' = BudgetCount + 1
         /\ (\E o \in WriteOutcomes : WriteDone(r, o))
              => dailyBudget' = dailyBudget]_vars

\* one request missed and synthesized (counter 1), a later one was answered
\* from the cache and the counter is still 1
C3_Witness ==
    /\ AllIdle
    /\ synthCalls = 1
    /\ dailyBudget.count = 1
    /\ memoryCache.present /\ memoryCache.data = 1
    /\ resp = CachedResponse(memoryCache)

\* C10: there is no single-flight guard.  A request whose read misses calls
\* generateWhatsUp whenever the budget allows it, whatever the other requests
\* are doing; every synthesis that returns increments the budget by one and
\* overwrites the memory slot with its own entry, and every file write that
\* succeeds overwrites the file with its own entry (the last write wins).
C10_Stampede ==
    [][\A r \in Procs :
         /\ (ReadFileDone(r)
                /\ ~(fileCache.state = "ok" /\ now < fileCache.expiresAt)
                /\ BudgetCount < DAILY_API_BUDGET)
              => pc'[r] = "synth" /\ synthCalls' = synthCalls + 1
         /\ (SynthReturn(r) /\ req[r].kind = "web")
              => /\ memoryCache' = [present |-> TRUE, data |-> req[r].call,
                                    timestamp |-> now,
                                    expiresAt |-> now + CACHE_DURATION_MS]
                 /\ toWrite'[r] = memoryCache'
                 /\ BudgetCount' = BudgetCount + 1
         /\ WriteDone(r, "ok") => fileCache' = FileOf(toWrite[r])]_vars

\* two requests missed at the same instant, both synthesized, both counted
\* and both wrote; the cache holds one of the two entries
C10_Witness ==
    /\ AllIdle
    /\ now = StartTime
    /\ synthCalls = 2
    /\ dailyBudget.count = 2
    /\ memoryCache.present /\ memoryCache.data \in {1, 2}
    /\ fileCache = FileOf(memoryCache)
(***************************************************************************)
(* Properties of the cost governor                                         *)
(***************************************************************************)
\* r is a GET of client c in this step
RequestOf(r, c) ==
    \E refresh \in BOOLEAN, token \in TokenValues : WebStart(r, c, refresh, token)
\* the start of the window of a rate-limit entry
WindowStart(e) == e.resetTime - 60000
\* the step rejects r by the rate limit and changes nothing else
RateRejected(r) ==
    /\ resp' = [status |-> 429, cached |-> FALSE, data |-> 0, body |-> "rate"]
    /\ pc' = pc
    /\ UNCHANGED <<limits, refreshCooldowns, memoryCache, fileCache,
                   dailyBudget, synthCalls>>

\* C4: per client, a window of 60 s admits 10 requests.  The first request
\* of a client opens a window with count 1; inside the window (less than
\* 60 s after its start) a request is admitted and counted while fewer than
\* 10 were counted and is rejected with 429 from then on; a request 61 s or
\* more after the window's start is admitted and opens a new window with
\* count 1.  No window ever counts more than 10 requests.
C4_RateLimitWindow ==
    /\ [](\A c \in Clients : limits[c].present => limits[c].count \in 1..10)
    /\ [][\A r \in Procs, c \in Clients :
            RequestOf(r, c) =>
              LET e == limits[c] IN
              /\ ~e.present
                   => limits'[c] = [present |-> TRUE, count |-> 1,
                                    resetTime |-> now + 60000]
              /\ (e.present /\ now - WindowStart(e) < 60000 /\ e.count < 10)
                   => /\ limits'[c] = [e EXCEPT !.count = e.count + 1]
                      /\ ~RateRejected(r)
              /\ (e.present /\ now - WindowStart(e) < 60000 /\ e.count >= 10)
                   => RateRejected(r)
              /\ (e.present /\ now - WindowStart(e) >= 61000)
                   => /\ limits'[c] = [present |-> TRUE, count |-> 1,
                                       resetTime |-> now + 60000]
                      /\ ~RateRejected(r)]_vars

\* a client has used its 10 requests, its next request inside the window was
\* rejected, and the other client opened a second window 61 s after its first
C4_Witness ==
    \E c, d \in Clients :
        /\ limits[c].present /\ limits[c].count = 10
        /\ now < limits[c].resetTime
        /\ resp = ErrorResponse(429, "rate")
        /\ limits[d].present /\ limits[d].count >= 1
        /\ WindowStart(limits[d]) = StartTime + 61000
\* SpecRetry: calls of fetchWithRetry against every sequence of upstream
\* answers
InitRetry == InitWith({NoSecrets}, {NoFile})
NextRetry ==
    \/ CallFetchWithRetry
    \/ \E status \in Statuses : FetchSettles(status)
    \/ FetchRejects
    \/ TimerFires
SpecRetry == InitRetry /\ [][NextRetry]_vars
\* the runtime settles every fetch and fires every timer
SpecRetryFair == SpecRetry /\ WF_vars(NextRetry)

\* SpecPrices: the prices endpoint over every answer of CoinGecko with up to
\* MaxCoins coins
InitPrices == InitWith({NoSecrets}, {NoFile})
NextPrices ==
    \/ PricesStart
    \/ /\ prices.pc = "fetching"
       /\ \E c100 \in MarketLists(1), c300 \in MarketLists(MaxCoins) :
             PricesFetched(CoinsOf(c100), CoinsOf(c300))
    \/ PricesFailed
SpecPrices == InitPrices /\ [][NextPrices]_vars

\* SpecDisplay: the sentiment shown for every conclusion of up to MaxWords
\* words and every sentiment field
InitDisplay == InitWith({NoSecrets}, {NoFile})
NextDisplay ==
    /\ sentiment.op = "none"
    /\ \E conclusion \in Conclusions(MaxWords),
          fallbackSentiment \in Sentiments :
           DeriveSentiment(conclusion, fallbackSentiment)
SpecDisplay == InitDisplay /\ [][NextDisplay]_vars

\* SpecSentiment: the numeric sentiment for every list of up to MaxHeadline
\* headline coins
InitSentiment == InitWith({NoSecrets}, {NoFile})
NextSentiment ==
    /\ sentiment.op = "none"
    /\ \E changes \in HeadlineLists(MaxHeadline) : DetermineSentiment(changes)
SpecSentiment == InitSentiment /\ [][NextSentiment]_vars

\* SpecParse: the two parsers on every answer of up to MaxText pieces
InitParse == InitWith({NoSecrets}, {NoFile})
NextParse ==
    \/ /\ parse.op = "none"
       /\ \E text \in Answers(MaxText) : ParseSynthesis(text)
    \/ /\ parse.op = "none"
       /\ \E text \in Answers(MaxText) : ParseGrok(text)
SpecParse == InitParse /\ [][NextParse]_vars

\* SpecEnrich: one call of either enrichment adapter, with every way its
\* upstream calls can end
InitEnrich == InitWith({NoSecrets}, {NoFile})
NextEnrich ==
    \/ \E hasKey \in BOOLEAN : CallFetchCryptoTweets(hasKey)
    \/ SearchWaits
    \/ \E q \in QUERIES, outcome \in Responses : SearchSettles(q, outcome)
    \/ \E q \in QUERIES : SearchAborts(q)
    \/ RankTweets
    \/ \E hasKey \in BOOLEAN : CallFetchCryptoIntelFromGrok(hasKey)
    \/ \E outcome \in {"network", "status", "badJson", "noContent"} : GrokFails(outcome)
    \/ /\ intel.pc = "fetching"
       /\ \E text \in Answers(MaxText), shape \in Shapes : GrokAnswers(text, shape)
SpecEnrich == InitEnrich /\ [][NextEnrich]_vars

\* SpecSynthesis: one call of generateWhatsUp with every way its fetches and
\* its LLM call can end
InitSynthesis == InitWith({NoSecrets}, {NoFile})
NextSynthesis ==
    \/ \E hasKey \in BOOLEAN : CallGenerateWhatsUp(hasKey)
    \/ \E outcome \in PriceOutcomes : PriceSettles(outcome)
    \/ \E outcome \in IntelOutcomes : IntelSettles(outcome)
    \/ \E outcome \in LLMOutcomes : LLMSettles(outcome)
SpecSynthesis == InitSynthesis /\ [][NextSynthesis]_vars

\* SpecCron: cron refreshes with every Authorization header under every
\* configuration of CRON_SECRET, next to plain reads of the briefing, with
\* failing syntheses and failing file writes
InitCron ==
    InitWith([adminToken : {Undefined}, cronSecret : EnvValues], OldFiles)
NextCron ==
    \/ \E r \in Procs : Calm(1) /\ WebStart(r, 1, FALSE, Null)
    \/ \E r \in Procs, auth \in TokenValues : CronStart(r, auth)
    \/ Resume
SpecCron == InitCron /\ [][NextCron]_vars

\* the request's token is the configured secret
PresentsSecret(token) ==
    env.adminToken \notin {Undefined, Empty} /\ token = env.adminToken
\* r is a GET with refresh=true of client c that passes the rate limit
RefreshStarts(r, c, token) ==
    /\ WebStart(r, c, TRUE, token)
    /\ checkRateLimit(limits[c], now).allowed
\* the step takes r past the cache, to the budget gate
Bypasses(r) ==
    \/ pc[r] = "idle" /\ pc'[r] = "synth"
    \/ /\ resp' = [status |-> 429, cached |-> FALSE, data |-> 0,
                    body |-> "budget"]
       /\ pc'[r] = "idle"
\* the step handles r as a read: the memory entry if it is valid, else on to
\* the cache file, and never a synthesis
HandledAsRead(r) ==
    /\ synthCalls' = synthCalls
    /\ IF memoryCache.present /\ now < memoryCache.expiresAt
       THEN resp' = CachedResponse(memoryCache) /\ pc'[r] = "idle"
       ELSE pc'[r] = "readFile" /\ ~req'[r].force

\* C6: a refresh=true request without admin rights bypasses the cache only
\* if the client's last granted refresh is at least 10 minutes old, and the
\* grant is recorded; the record changes in no other way, so two granted
\* refreshes of one client are at least 10 minutes apart.  Inside the
\* cooldown the request is handled as a plain read: it is answered from the
\* cache, without synthesis, whenever a valid entry exists.
C6_RefreshCooldown ==
    [][\A r \in Procs, c \in Clients :
         /\ \A token \in TokenValues :
              (RefreshStarts(r, c, token) /\ ~PresentsSecret(token)) =>
                IF now - refreshCooldowns[c] >= 600000
                THEN Bypasses(r) /\ refreshCooldowns'[c] = now
                ELSE HandledAsRead(r) /\ refreshCooldowns' = refreshCooldowns
         /\ refreshCooldowns'[c] # refreshCooldowns[c] =>
              /\ refreshCooldowns'[c] = now
              /\ now - refreshCooldowns[c] >= 600000
              /\ \E q \in Procs, token \in TokenValues :
                    RefreshStarts(q, c, token) /\ Bypasses(q)
         /\ (ReadFileDone(r) /\ req[r].refresh
                /\ fileCache.state = "ok" /\ now < fileCache.expiresAt)
              => /\ resp' = CachedResponse(fileCache)
                 /\ synthCalls' = synthCalls]_vars

\* one client was granted a refresh at the start and a second one exactly 10
\* minutes later; nobody else refreshed, and the briefing of the first
\* refresh was served from the cache in between
C6_Witness ==
    \E r \in Procs, c \in Clients :
        /\ pc[r] = "synth" /\ req[r].client = c /\ req[r].force
        /\ refreshCooldowns[c] = StartTime + 600000
        /\ now = refreshCooldowns[c]
        /\ \A d \in Clients \ {c} : refreshCooldowns[d] = 0
        /\ synthCalls = 2
        /\ resp = CachedResponse(memoryCache) /\ memoryCache.data = 1

\* C7: a refresh=true request that presents the configured secret always
\* bypasses the cache and leaves the cooldown record alone, whatever it
\* holds.  Any other token, and any token when no secret is configured, is
\* handled as a request without admin rights: granted when the cooldown has
\* elapsed, otherwise served as a plain read, never rejected for the token.
C7_AdminBypass ==
    [][\A r \in Procs, c \in Clients, token \in TokenValues :
         RefreshStarts(r, c, token) =>
           IF PresentsSecret(token)
           THEN Bypasses(r) /\ refreshCooldowns' = refreshCooldowns
           ELSE IF now - refreshCooldowns[c] >= 600000
                THEN Bypasses(r) /\ refreshCooldowns'[c] = now
                ELSE HandledAsRead(r) /\ refreshCooldowns' = refreshCooldowns]_vars

\* inside the cooldown of a refresh granted without the secret, a refresh
\* with the secret went past the cache, and the cooldown record is untouched
C7_Witness ==
    \E r \in Procs :
        /\ env.adminToken = Secret
        /\ pc[r] = "synth"
        /\ req[r].refresh /\ req[r].token = Secret /\ req[r].force
        /\ refreshCooldowns[1] = StartTime
        /\ now = StartTime + 600000 - 1

\* the step takes r to the budget gate: a forced refresh, or a read that
\* found no valid entry in the cache file
ReachesBudgetGate(r) ==
    \/ \E c \in Clients, token \in TokenValues :
          /\ RefreshStarts(r, c, token)
          /\ PresentsSecret(token) \/ now - refreshCooldowns[c] >= 600000
    \/ /\ ReadFileDone(r)
       /\ ~(fileCache.state = "ok" /\ now < fileCache.expiresAt)

\* C5: a briefing request that reaches the budget gate while the counter of
\* the current UTC day has reached DAILY_API_BUDGET is answered 429, calls
\* no synthesis and leaves both cache slots alone; at the first gate after
\* midnight the counter starts again from 0 and the synthesis is called.
C5_DailyBudgetCap ==
    [][\A r \in Procs :
         ReachesBudgetGate(r) =>
           IF now < dailyBudget.resetTime
              /\ dailyBudget.count >= DAILY_API_BUDGET
           THEN /\ resp' = ErrorResponse(429, "budget")
                /\ pc'[r] = "idle"
                /\ synthCalls' = synthCalls
                /\ UNCHANGED <<memoryCache, fileCache, dailyBudget>>
           ELSE /\ pc'[r] = "synth"
                /\ synthCalls' = synthCalls + 1
                /\ now >= dailyBudget.resetTime => dailyBudget'.count = 0]_vars

\* a request was rejected for the exhausted budget; after midnight the
\* counter is back at 0 and a request is in synthesis
C5_Witness ==
    \E r \in Procs :
        /\ resp = ErrorResponse(429, "budget")
        /\ now >= NextMidnightUTC(StartTime)
        /\ pc[r] = "synth"
        /\ dailyBudget.count = 0
        /\ dailyBudget.resetTime > now

\* C8: a follow-up that reaches the LLM provider has passed the rate limit
\* of its client (and is counted in the client's window) and the daily
\* budget check.
C8_FollowUpGated ==
    [][\A c \in Clients, o \in FollowUpOutcomes :
         (FollowUp(c, o) /\ FollowUpCallsLLM(o)) =>
           /\ checkRateLimit(limits[c], now).allowed
           /\ limits'[c] = checkRateLimit(limits[c], now).entry
           /\ BudgetCount < DAILY_API_BUDGET]_vars

\* a follow-up was answered by the provider on a day whose budget is used up
C8_Witness ==
    /\ AllIdle
    /\ resp = FollowUpResponse
    /\ now < dailyBudget.resetTime
    /\ dailyBudget.count >= DAILY_API_BUDGET

\* C9: the daily counter counts the operations that called an upstream LLM:
\* each briefing synthesis, cron refresh and follow-up that called the
\* provider adds exactly one, and nothing else changes the counter.
C9_BudgetCountsEveryCall ==
    [][/\ \A r \in Procs :
            (SynthReturn(r) \/ SynthThrow(r, TRUE))
              => BudgetCount' = BudgetCount + 1
       /\ \A c \in Clients, o \in FollowUpOutcomes :
            (FollowUp(c, o) /\ FollowUpCallsLLM(o))
              => BudgetCount' = BudgetCount + 1
       /\ (now' = now /\ BudgetCount' # BudgetCount) =>
            \/ \E r \in Procs : SynthReturn(r) \/ SynthThrow(r, TRUE)
            \/ \E c \in Clients, o \in FollowUpOutcomes :
                  FollowUp(c, o) /\ FollowUpCallsLLM(o)]_vars
\* a cron refresh has synthesised and stored a briefing, and the counter of
\* the day still reads 0
C9_Witness ==
    /\ AllIdle
    /\ resp = CronResponse
    /\ synthCalls = 1
    /\ memoryCache.present /\ memoryCache.data = 1
    /\ BudgetCount = 0
(***************************************************************************)
(* Properties of fetchWithRetry                                            *)
(***************************************************************************)
\* C11: only a response with status 429 or 529 is followed by another
\* request.  A response with any other status, 2xx or not, ends the call in
\* the step that receives it: it is the value returned, no delay is added,
\* and a call that has ended sends nothing more.
C11_RetrySelectivity ==
    /\ [](\A i \in 1..(Len(retry.seen) - 1) : retry.seen[i] \in {429, 529})
    /\ [][/\ \A status \in Statuses :
               (FetchSettles(status) /\ status \notin {429, 529}) =>
                  /\ retry'.pc = "done"
                  /\ retry'.outcome = "returned"
                  /\ retry'.status = status
                  /\ retry'.delays = retry.delays
          /\ retry.pc = "done" => retry' = retry]_vars

\* after a 429 and a 529 the third attempt got a 404, which was returned
C11_Witness ==
    /\ retry.pc = "done"
    /\ retry.outcome = "returned"
    /\ retry.status = 404
    /\ retry.seen = <<429, 529, 404>>
    /\ Len(retry.delays) = 2

\* C12: one call sends at most 1 + 3 requests; before the retry that follows
\* attempt number k it waits 2000 * 2^k ms (2000, 4000, 8000); it throws the
\* overloaded error exactly when all four attempts were answered 429 or 529;
\* and every call ends.
C12_RetryBound ==
    /\ [](/\ Len(retry.seen) <= 4
          /\ Len(retry.delays) <= 3
          /\ \A k \in 1..Len(retry.delays) :
                retry.delays[k] = 2000 * 2^(k - 1)
          /\ retry.pc = "fetch" => Len(retry.delays) = Len(retry.seen)
          /\ retry.pc = "sleep" => Len(retry.delays) = Len(retry.seen)
          /\ retry.pc = "done" => Len(retry.delays) = Len(retry.seen) - 1
          /\ (Len(retry.seen) = 4
                /\ \A i \in 1..4 : retry.seen[i] \in {429, 529})
              <=> (retry.pc = "done" /\ retry.outcome = "thrown")
          /\ retry.outcome = "thrown" => retry.lastError = retry.seen[4])
    /\ (retry.pc # "idle" ~> retry.pc = "done")

\* four attempts were all answered 429 or 529: three waits, then the throw
C12_Witness ==
    /\ retry.pc = "done"
    /\ retry.outcome = "thrown"
    /\ retry.seen = <<429, 529, 529, 429>>
    /\ retry.delays = <<2000, 4000, 8000>>
    /\ retry.lastError = 429
(***************************************************************************)
(* Properties of the prices endpoint                                       *)
(***************************************************************************)
Answered == prices.pc = "done" /\ prices.status = 200
Excluded == STABLECOIN_IDS \cup WRAPPED_TOKEN_IDS
Tiers == {"top50", "top100", "top200", "top300"}
\* the names in a gainers or losers list
NamesIn(movers) == {movers[i].name : i \in 1..Len(movers)}

\* C13: no coin of the stablecoin or wrapped-token lists is among the
\* gainers or losers of any tier, nor in the selector listing.
C13_DenylistExcluded ==
    Answered =>
      /\ \A t \in Tiers :
            /\ NamesIn(prices.topMovers[t].gainers) \cap Excluded = {}
            /\ NamesIn(prices.topMovers[t].losers) \cap Excluded = {}
      /\ \A i \in 1..Len(prices.availableCoins) :
            prices.availableCoins[i] \notin Excluded

\* wrapped-bitcoin is up, is the first gainer of the top300 tier, and is
\* left out of the selector listing
C13_Witness ==
    /\ Answered
    /\ Len(prices.topMovers.top300.gainers) >= 1
    /\ prices.topMovers.top300.gainers[1].name = "wrapped-bitcoin"
    /\ \A i \in 1..Len(prices.availableCoins) :
          prices.availableCoins[i] # "wrapped-bitcoin"
    /\ Len(prices.availableCoins) >= 1

\* the 24h change of the coin called name in a fetched list
ChangeOf(coins, name) ==
    (CHOOSE c \in {coins[i] : i \in 1..Len(coins)} : c.id = name).change
\* the number of coins of a list whose change has the given sign
CountSign(coins, sign) ==
    Cardinality({i \in 1..Len(coins) : coins[i].change * sign > 0})
\* movers is the list of the (at most) 5 coins of the input whose change,
\* multiplied by sign, is largest and positive, the largest first; strict
\* says whether neighbours must differ
BestFive(movers, coins, sign, strict) ==
    LET ids == {coins[i].id : i \in 1..Len(coins)}
        n == CountSign(coins, sign)
        v(i) == ChangeOf(coins, movers[i].name) * sign
    IN  /\ Len(movers) = IF n < 5 THEN n ELSE 5
        /\ \A i \in 1..Len(movers) :
              /\ movers[i].name \in ids
              /\ v(i) > 0
              /\ 10 * movers[i].change * sign - v(i) \in -5..5
        /\ \A i, j \in 1..Len(movers) :
              i < j => /\ movers[i].name # movers[j].name
                       /\ IF strict THEN v(i) > v(j) ELSE v(i) >= v(j)
        /\ \A k \in 1..Len(coins) :
              (coins[k].id \notin NamesIn(movers) /\ Len(movers) > 0)
                => coins[k].change * sign <= v(Len(movers))
TopMoversOf(movers, coins, strict) ==
    /\ BestFive(movers.gainers, coins, 1, strict)
    /\ BestFive(movers.losers, coins, -1, strict)

\* C14: getTopMovers returns at most 5 gainers, all with a change > 0, the
\* largest change first, and at most 5 losers, all with a change < 0, the
\* most negative first; they are the 5 largest positive and the 5 most
\* negative changes of the input.  Neighbours in a list may have equal
\* changes: the order is descending (ascending for the losers), strictly
\* so only between coins whose changes differ.
C14_TopMovers ==
    Answered =>
      /\ TopMoversOf(prices.topMovers.top300, prices.top300Coins, FALSE)
      /\ TopMoversOf(prices.topMovers.top100, prices.top100Coins, FALSE)

\* C14 as stated: the gainers strictly descending and the losers strictly
\* ascending, for every list of coins
C14_TopMoversStrict ==
    Answered =>
      /\ TopMoversOf(prices.topMovers.top300, prices.top300Coins, TRUE)
      /\ TopMoversOf(prices.topMovers.top100, prices.top100Coins, TRUE)

\* six coins are up, two of the five gainers by the same amount, and the one
\* loser of the top100 list is listed
C14_Witness ==
    /\ Answered
    /\ CountSign(prices.top300Coins, 1) = 6
    /\ Len(prices.topMovers.top300.gainers) = 5
    /\ ChangeOf(prices.top300Coins, prices.topMovers.top300.gainers[1].name)
         = ChangeOf(prices.top300Coins, prices.topMovers.top300.gainers[2].name)
    /\ ChangeOf(prices.top300Coins, prices.topMovers.top300.gainers[5].name)
         = 529
    /\ Len(prices.topMovers.top100.losers) = 1
(***************************************************************************)
(* Properties of the sentiment                                             *)
(***************************************************************************)
Derived == sentiment.op = "derive" /\ sentiment.conclusion.defined
\* the conclusion in lower case
Lowered == ToLowerCase(sentiment.conclusion.text)
\* the conclusion names one of the explicit bearish phrases
ExplicitlyBearish ==
    \E p \in {<<"leaning", "bearish">>, <<"bearish", "short">>,
               <<"bearish", "medium">>, <<"bearish", "long">>,
               <<"strongly", "bearish">>} : Includes(Lowered, p)

RECURSIVE Above(_, _)
Above(changes, threshold) ==
    IF changes = <<>> THEN 0
    ELSE (Head(changes) - threshold) + Above(Tail(changes), threshold)

ProseBlockProse(text, i, j) ==
    /\ 1 <= i /\ i < j /\ j <= Len(text)
    /\ JsonParses(SubSeq(text, i, j))
    /\ \A k \in 1..(i - 1) : text[k] # "{"
    /\ \A a, b \in (j + 1)..Len(text) : ~JsonParses(SubSeq(text, a, b))

\* C17: from an answer that is prose, one well-formed {...} block and prose
\* again, both parsers extract exactly the block, the first balanced span
\* of the text, and parse it.
C17_JsonExtraction ==
    parse.op # "none" =>
      \A i, j \in 1..Len(parse.text) :
          ProseBlockProse(parse.text, i, j) =>
            /\ parse.matched
            /\ parse.span = SubSeq(parse.text, i, j)
            /\ parse.span = MatchFirstBalanced(parse.text).span
            /\ parse.parsed
            /\ ~parse.threw

\* prose, the block { k }, prose and a stray closing brace: the span taken
\* runs to the stray brace, JSON.parse rejects it and the synthesis throws
C17_Witness ==
    /\ parse.op = "synthesis"
    /\ parse.text = <<"w", "{", "k", "}", "w", "}">>
    /\ ProseBlockProse(parse.text, 2, 4)
    /\ parse.span = <<"{", "k", "}", "w", "}">>
    /\ ~parse.parsed
    /\ parse.threw

(***************************************************************************)
(* Properties of the enrichment adapters                                   *)
(***************************************************************************)
\* the posts the searches answered with
Offered ==
    UNION {{tweets.queries[q].tweets[i] : i \in 1..Len(tweets.queries[q].tweets)} :
             q \in {k \in QUERIES : Fulfils(tweets.queries[k])}}
\* at least 30 characters and not older than 48 hours
Qualifies(t) == t.hasText /\ t.text >= 30 /\ t.createdAt >= tweets.cutoff
Returned(id) == \E i \in 1..Len(tweets.result) : tweets.result[i].id = id
\* the post is returned, or 15 posts of at least its score are
RankedOrBeaten(t) ==
    \/ Returned(t.id)
    \/ /\ Len(tweets.result) = 15
       /\ \A i \in 1..Len(tweets.result) : tweets.result[i].score >= scoreTweet(t)

\* C18: fetchCryptoTweets returns at most 15 posts with pairwise distinct
\* ids, sorted by score descending; each was offered with a text of at least
\* 30 characters and a creation time within the last 48 hours; each returned
\* text has at most 280 characters; no post that passes the filter is left
\* out while a post of lower score is returned.
C18_RawEvidencePipeline ==
    tweets.pc = "done" =>
      LET result == tweets.result
      IN  /\ Len(result) <= 15
          /\ \A i, j \in 1..Len(result) :
                i < j => /\ result[i].id # result[j].id
                         /\ result[i].score >= result[j].score
          /\ \A i \in 1..Len(result) :
                /\ \E t \in Offered : t.id = result[i].id /\ Qualifies(t)
                /\ result[i].text <= 280
          /\ \A t \in Offered : Qualifies(t) => RankedOrBeaten(t)

\* 15 posts are returned and a post that passes the filter is left out, a
\* text of 281 characters was cut to 280, a post was offered twice and posts
\* that are too short and too old were offered
C18_Witness ==
    /\ tweets.pc = "done"
    /\ Len(tweets.result) = 15
    /\ \E t \in Offered : Qualifies(t) /\ ~Returned(t.id)
    /\ \E t \in Offered : t.text = 281 /\ Returned(t.id)
    /\ \E t \in Offered : t.text < 30
    /\ \E t \in Offered : t.createdAt < tweets.cutoff
    /\ \E q, r \in QUERIES :
          /\ q # r
          /\ tweets.queries[q] = [kind |-> "tweets", tweets |-> Page(1, 6)]
          /\ tweets.queries[r] = [kind |-> "tweets", tweets |-> Page(5, 10)]

\* C19: whatever the upstream does (no API key, network error, timeout,
\* status other than 2xx, no content, text without JSON, invalid JSON, JSON
\* or post records of unexpected shape), fetchCryptoIntelFromGrok and
\* fetchCryptoTweets do not throw, and a failed call of Grok yields the
\* empty result.
C19_AdaptersNeverThrow ==
    /\ tweets.pc # "threw"
    /\ intel.pc # "threw"
    /\ intel.pc = "done" /\ intel.outcome # "content" => intel.result = EmptyIntel

\* one search answers with a record that has no text, the other three fail
\* quietly: the TypeError of t.text.length leaves fetchCryptoTweets
C19_Witness ==
    /\ tweets.pc = "threw"
    /\ \E q \in QUERIES :
          /\ tweets.queries[q] =
               [kind |-> "tweets", tweets |-> <<RawTweet(2), Textless(RawTweet(3))>>]
          /\ \A r \in QUERIES \ {q} : tweets.queries[r].kind \in {"status", "abort"}

\* the search failed: status other than 2xx, rejection, unreadable body or
\* abort after 5 s
Failed(outcome) == outcome.kind \in {"status", "network", "badJson", "abort"}
\* the search answered with something other than a list of posts with texts
Malformed(outcome) ==
    \/ outcome.kind = "notArray"
    \/ \E i \in 1..Len(outcome.tweets) : ~outcome.tweets[i].hasText

\* C20: every search settles on its own; when some of the four fail or are
\* aborted after 5 s, the adapter still completes and the posts of every
\* search that succeeded go through the pipeline, and when all four fail the
\* adapter returns the empty list.
C20_FailureIsolation ==
    /\ tweets.pc \in {"done", "threw"}
    /\ \E q \in QUERIES : Failed(tweets.queries[q])
    /\ \A q \in QUERIES : ~Malformed(tweets.queries[q])
    => /\ tweets.pc = "done"
       /\ \A t \in Offered : Qualifies(t) => RankedOrBeaten(t)
       /\ (\A q \in QUERIES : Failed(tweets.queries[q])) => tweets.result = <<>>

\* one search is aborted, one is refused, two answer, and the posts of the
\* two are returned
C20_Witness ==
    /\ tweets.pc = "done"
    /\ tweets.queries[1] = Ended("abort")
    /\ tweets.queries[2] = Ended("status")
    /\ tweets.queries[3] = [kind |-> "tweets", tweets |-> Page(9, 15)]
    /\ tweets.queries[4] = [kind |-> "tweets", tweets |-> Page(1, 6)]
    /\ Returned(1)
    /\ Returned(15)

(***************************************************************************)
(* Properties of generateWhatsUp                                           *)
(***************************************************************************)
\* the position of an event in the log of the call, 0 if it did not happen
Position(event) ==
    IF \E i \in 1..Len(synthesis.log) : synthesis.log[i] = event
    THEN CHOOSE i \in 1..Len(synthesis.log) : synthesis.log[i] = event
    ELSE 0
Before(a, b) == Position(a) > 0 /\ Position(b) > 0 /\ Position(a) < Position(b)

\* C21: a call of generateWhatsUp that passed the key check has started the
\* price, social-intelligence and raw-evidence fetches before it awaits any
\* of them; the synthesis LLM call is issued only after all three have
\* completed; a failed price fetch makes the call throw with no LLM call.
C21_ParallelJoin ==
    /\ synthesis.pc \notin {"idle"} /\ Position("await") > 0
         => \A name \in {"price", "intel", "evidence"} : Before(name, "await")
    /\ synthesis.llmCalls > 0
         => /\ synthesis.price = "ok"
            /\ synthesis.intel \in IntelOutcomes
            /\ synthesis.evidence \notin {"none", "pending"}
    /\ synthesis.price \in PriceOutcomes \ {"ok"}
         => synthesis.pc = "threw" /\ synthesis.llmCalls = 0

\* the LLM call is made after the price and the intelligence fetch have
\* completed, and no raw-evidence fetch was ever started
C21_Witness ==
    /\ synthesis.pc = "llm"
    /\ synthesis.llmCalls = 1
    /\ synthesis.price = "ok"
    /\ synthesis.intel = "content"
    /\ synthesis.evidence = "none"
    /\ Before("price", "await") /\ Before("intel", "await")
    /\ Before("await", "llm")

(***************************************************************************)
(* Properties of the fallback sentiment in the display                     *)
(***************************************************************************)
\* the lowered text names neither direction at all
Directionless(lower) ==
    ~Includes(lower, <<"bearish">>) /\ ~Includes(lower, <<"bullish">>)

\* C30: deriveSentimentFromConclusion returns the numeric fallback sentiment
\* whenever the conclusion gives no direction: when it is absent or empty,
\* and when it is a text without the words bearish and bullish.
C30_FallbackUsed ==
    sentiment.op = "derive" =>
      /\ (~sentiment.conclusion.defined \/ sentiment.conclusion.text = <<>>)
           => sentiment.result = sentiment.fallback
      /\ (sentiment.conclusion.defined
            /\ Directionless(ToLowerCase(sentiment.conclusion.text)))
           => sentiment.result = sentiment.fallback

\* a conclusion that names no direction, a bearish fallback, and the
\* derived sentiment is neutral
C30_Witness ==
    /\ sentiment.op = "derive"
    /\ sentiment.conclusion = Conclusion(<<"long", ",", "long">>)
    /\ sentiment.fallback = "bearish"
    /\ sentiment.result = "neutral"

(***************************************************************************)
(* Properties of the two cache tiers                                       *)
(***************************************************************************)
\* C22: setCachedWhatsUp puts one entry into the memory slot and, when the
\* write succeeds, into the file.  When the write fails it still returns
\* normally: the route answers 200 with the fresh briefing, the failing step
\* leaves the memory slot (and the file) as they are, and a read that finds
\* the entry in memory before its expiry is answered with it, whatever the
\* file holds.
C22_WritePath ==
    [][\A r \in Procs :
         /\ SynthReturn(r)
              => /\ memoryCache'.present /\ memoryCache'.data = req[r].call
                 /\ toWrite'[r] = memoryCache'
         /\ WriteDone(r, "ok")
              => /\ fileCache'.state = "ok"
                 /\ fileCache'.data = toWrite[r].data
                 /\ fileCache'.timestamp = toWrite[r].timestamp
                 /\ fileCache'.expiresAt = toWrite[r].expiresAt
         /\ WriteDone(r, "failed")
              => /\ resp'.status = 200 /\ resp'.data = toWrite[r].data
                 /\ pc'[r] = "idle"
                 /\ memoryCache' = memoryCache
                 /\ fileCache' = fileCache
         /\ (PlainReadStarts(r) /\ memoryCache.present
               /\ now < memoryCache.expiresAt)
              => /\ resp'.status = 200 /\ resp'.cached
                 /\ resp'.data = memoryCache.data
                 /\ synthCalls' = synthCalls]_vars

\* the write of the first briefing failed, there is no file, and a later
\* read was answered with the briefing from memory
C22_Witness ==
    /\ AllIdle
    /\ synthCalls = 1
    /\ fileCache = NoFile
    /\ memoryCache.present /\ memoryCache.data = 1
    /\ limits[1].count >= 2
    /\ resp = CachedResponse(memoryCache)
    /\ now > StartTime

\* C23: a read that finds a valid entry in memory returns it without
\* reading the file.  A read that finds memory empty or expired reads the
\* file: a valid document is returned and is the memory entry afterwards; a
\* missing, unparseable or expired file gives no entry and leaves the memory
\* slot as it is.
C23_TwoTierRead ==
    [][\A r \in Procs :
         /\ PlainReadStarts(r) =>
              /\ memoryCache' = memoryCache
              /\ fileCache' = fileCache
              /\ IF memoryCache.present /\ now < memoryCache.expiresAt
                 THEN pc'[r] = "idle" /\ resp'.cached
                      /\ resp'.data = memoryCache.data
                 ELSE pc'[r] = "readFile"
         /\ ReadFileDone(r) =>
              /\ fileCache' = fileCache
              /\ IF fileCache.state = "ok" /\ now < fileCache.expiresAt
                 THEN /\ pc'[r] = "idle" /\ resp'.cached
                      /\ resp'.data = fileCache.data
                      /\ memoryCache' = [present |-> TRUE,
                                         data |-> fileCache.data,
                                         timestamp |-> fileCache.timestamp,
                                         expiresAt |-> fileCache.expiresAt]
                 ELSE /\ memoryCache' = memoryCache
                      /\ ~resp'.cached \/ resp' = resp
                      /\ pc'[r] = "synth" \/ resp'.status = 429]_vars

\* the document of the file was promoted by the first read and the second
\* read was answered from memory
C23_Witness ==
    /\ AllIdle
    /\ synthCalls = 0
    /\ fileCache = OldFile
    /\ memoryCache.present /\ memoryCache.data = OldFile.data
    /\ memoryCache.timestamp = OldFile.timestamp
    /\ limits[1].count = 2
    /\ resp = CachedResponse(memoryCache)

\* the cache duration of an entry
Ttl(e) == e.expiresAt - e.timestamp

\* C24: every entry setCachedWhatsUp creates expires 24 hours after its
\* timestamp, in memory and in the file, and no read changes the timestamp
\* or the expiry of a stored entry: a read leaves the file alone and leaves
\* the memory entry alone or replaces it by the entry of the file, with the
\* file's timestamp and expiry.
C24_FixedTtl ==
    [][/\ memoryCache'.present => Ttl(memoryCache') = 24 * 60 * 60 * 1000
       /\ fileCache'.state = "ok" => Ttl(fileCache') = 24 * 60 * 60 * 1000
       /\ \A r \in Procs :
            /\ SynthReturn(r)
                 => /\ memoryCache'.timestamp = now
                    /\ toWrite'[r].timestamp = now
                    /\ Ttl(toWrite'[r]) = 24 * 60 * 60 * 1000
            /\ (PlainReadStarts(r) \/ ReadFileDone(r))
                 => /\ fileCache' = fileCache
                    /\ \/ memoryCache' = memoryCache
                       \/ /\ memoryCache'.timestamp = fileCache.timestamp
                          /\ memoryCache'.expiresAt = fileCache.expiresAt]_vars

\* the document of the file was promoted 1 ms before its expiry and the
\* memory entry still expires with it
C24_Witness ==
    /\ AllIdle
    /\ now = OldFile.expiresAt - 1
    /\ memoryCache.present
    /\ memoryCache.timestamp = OldFile.timestamp
    /\ memoryCache.expiresAt = OldFile.expiresAt
    /\ resp = CachedResponse(memoryCache)

(***************************************************************************)
(* Properties of the cron refresh                                          *)
(***************************************************************************)
\* the Authorization header carries the configured CRON_SECRET
PresentsCronSecret(auth) ==
    env.cronSecret \notin {Undefined, Empty} /\ auth = env.cronSecret

\* C25: a cron refresh that does not present the shared secret is answered
\* 401, calls no synthesis and leaves the cache alone; one that presents it
\* calls the synthesis whatever the cache holds, without a look at the rate
\* limit, the cooldowns or the budget, and its briefing overwrites the cache.
C25_CronProtection ==
    [][\A r \in Procs :
         /\ \A auth \in TokenValues :
              CronStart(r, auth) =>
                IF PresentsCronSecret(auth)
                THEN /\ pc'[r] = "synth"
                     /\ synthCalls' = synthCalls + 1
                     /\ UNCHANGED <<limits, refreshCooldowns, dailyBudget>>
                ELSE /\ resp'.status = 401
                     /\ pc'[r] = "idle"
                     /\ UNCHANGED <<synthCalls, memoryCache, fileCache>>
         /\ (SynthReturn(r) /\ req[r].kind = "cron")
              => memoryCache'.present /\ memoryCache'.data = req[r].call
         /\ (WriteDone(r, "ok") /\ req[r].kind = "cron")
              => fileCache'.state = "ok" /\ fileCache'.data = toWrite[r].data]_vars

\* CRON_SECRET is not set and a request without Authorization header has
\* called the synthesis and overwritten both cache slots
C25_Witness ==
    /\ env.cronSecret = Undefined
    /\ AllIdle
    /\ synthCalls = 1
    /\ resp = CronResponse
    /\ memoryCache.present /\ memoryCache.data = 1
    /\ fileCache = FileOf(memoryCache)

(***************************************************************************)
(* Properties of the budget under concurrent requests                      *)
(***************************************************************************)
\* briefing requests that passed the budget check and wait for generateWhatsUp
InSynthesis == {r \in Procs : pc[r] = "synth" /\ req[r].kind = "web"}

\* C26: however briefing requests interleave, the counter of the day and
\* the synthesis calls of briefing requests it accounts for (those counted
\* and those still running) never exceed DAILY_API_BUDGET.
C26_BudgetCapConcurrent ==
    /\ BudgetCount <= DAILY_API_BUDGET
    /\ now < dailyBudget.resetTime
         => dailyBudget.count + Cardinality(InSynthesis) <= DAILY_API_BUDGET

\* within one instant of one day the counter has passed the maximum: two
\* requests passed the check at count DAILY_API_BUDGET - 1 and both returned
C26_Witness ==
    /\ now = StartTime
    /\ AllIdle
    /\ dailyBudget.count = DAILY_API_BUDGET + 1
    /\ synthCalls = DAILY_API_BUDGET + 1
    /\ resp.status = 200 /\ ~resp.cached

(***************************************************************************)
(* Properties of a failed synthesis                                        *)
(***************************************************************************)
\* C27: when generateWhatsUp throws, in a briefing request after a miss or
\* a forced refresh or in a cron refresh, the handler answers 500 and the
\* request has changed neither cache slot nor the counter of the day: not
\* on its way to the synthesis and not in its catch block, so the briefing
\* that was served before is served afterwards.
C27_FailureLeavesState ==
    [][\A r \in Procs :
         /\ (pc[r] # "synth" /\ pc'[r] = "synth")
              => /\ memoryCache' = memoryCache
                 /\ fileCache' = fileCache
                 /\ BudgetCount' = BudgetCount
         /\ \A calledLLM \in BOOLEAN :
              SynthThrow(r, calledLLM)
                => /\ resp'.status = 500
                   /\ pc'[r] = "idle"
                   /\ memoryCache' = memoryCache
                   /\ fileCache' = fileCache
                   /\ dailyBudget' = dailyBudget
                   /\ Served' = Served]_vars

\* a forced refresh failed in the synthesis: the answer is 500, nothing
\* was counted and the briefing of the file is still the one served
C27_Witness ==
    /\ AllIdle
    /\ synthCalls = 1
    /\ resp = ErrorResponse(500, "failed")
    /\ dailyBudget.count = 0
    /\ memoryCache = NoEntry
    /\ fileCache = OldFile
    /\ Served.present /\ Served.data = OldFile.data

(***************************************************************************)
(* Properties of concurrent writes of the cache                            *)
(***************************************************************************)
\* C28: whenever every call of setCachedWhatsUp has completed and every
\* file write succeeded, the memory slot and the cache file hold the same
\* entry, however the calls interleaved.
C28_TierAgreement ==
    (AllIdle /\ memoryCache.present) => fileCache = FileOf(memoryCache)

\* two calls overlapped: the first assigned the memory slot first and wrote
\* the file last
C28_Witness ==
    /\ AllIdle
    /\ synthCalls = 2
    /\ memoryCache.present /\ memoryCache.data = 2
    /\ fileCache.state = "ok" /\ fileCache.data = 1

(***************************************************************************)
(* Properties of the cooldown of a refresh that produced nothing           *)
(***************************************************************************)
\* r is in the synthesis of a forced refresh without admin rights, and no
\* synthesis was started after it
LatestGrantedRefresh(r) ==
    /\ pc[r] = "synth"
    /\ req[r].kind = "web" /\ req[r].force
    /\ ~PresentsSecret(req[r].token)
    /\ req[r].call = synthCalls

\* C29: a granted refresh of a client without admin rights that is rejected
\* at the budget gate leaves the client's cooldown record as it was, and
\* when the synthesis of a granted refresh fails, a refresh=true request of
\* that client is granted again at once.
C29_CooldownOnlyOnSuccess ==
    [][\A r \in Procs :
         /\ \A c \in Clients, token \in TokenValues :
              ( /\ RefreshStarts(r, c, token)
                /\ ~PresentsSecret(token)
                /\ now - refreshCooldowns[c] >= REFRESH_COOLDOWN_MS
                /\ resp' = ErrorResponse(429, "budget")
                /\ pc'[r] = "idle" )
                => refreshCooldowns'[c] = refreshCooldowns[c]
         /\ \A calledLLM \in BOOLEAN :
              (LatestGrantedRefresh(r) /\ SynthThrow(r, calledLLM))
                => now' - refreshCooldowns'[req[r].client]
                      >= REFRESH_COOLDOWN_MS]_vars

\* the synthesis of a client's only granted refresh failed, and the client
\* is inside a cooldown that began with that request
C29_Witness ==
    \E c \in Clients :
        /\ AllIdle
        /\ synthCalls = 1
        /\ resp = ErrorResponse(500, "failed")
        /\ memoryCache = NoEntry
        /\ refreshCooldowns[c] = StartTime
        /\ now - refreshCooldowns[c] < REFRESH_COOLDOWN_MS
====
